---------------------------- MODULE Spec2Model ----------------------------
(***************************************************************************)
(* Orchestration core of aegnt-unltd: the enhanced agent's                 *)
(* Think/Act/Reflect/Evolve loop (core/agent/enhanced_agent.py), its tool  *)
(* registry (core/sandbox/tool_registry.py) and the multi-agent            *)
(* orchestrator's execute_parallel, run on one asyncio event loop.         *)
(* SpecRegistry drives one ToolRegistry directly; SpecBase is the base     *)
(* AgentOrchestrator with AgentZeroInstance agents (core/agent/            *)
(* agent_zero.py), SpecRemove and SpecBroadcast the same orchestrator with *)
(* remove_agent and broadcast_task, SpecTimeout the enhanced world with a  *)
(* clock, SpecLedger and SpecNightly the SelfEvolver of                    *)
(* aegnt-unltd/python/evolution.py.  SpecMetrics varies the measured       *)
(* execution times, SpecShipped fixes the shipped registry, SpecLive adds  *)
(* the event loop's fairness to execute_parallel, SpecApi puts the         *)
(* handlers of ui/api/main.py in front of the base orchestrator and        *)
(* SpecIsolation runs both orchestrators.                                  *)
(*                                                                         *)
(* Python indices are 0-based, sequences here are 1-based: task index i of *)
(* the source is i+1 here, and agent_ids[i % n] is agent_ids[((i-1)%n)+1]. *)
(***************************************************************************)
EXTENDS Integers, Sequences, FiniteSets, TLC

\* ------------------------------------------------------------------ bounds
MaxAgents == 2
MaxTasks == 3
MaxConc == 2
MaxSeqLen == 4

\* -------------------------------------------------------------- AgentState
IDLE == "idle"
THINKING == "thinking"
EXECUTING == "executing"
WAITING == "waiting"
ERROR == "error"
COMPLETED == "completed"

AgentState == {IDLE, THINKING, EXECUTING, WAITING, ERROR, COMPLETED}

\* ----------------------------------------------------------- tool registry
\* names of the built-in tools, in registration order
BuiltinNames ==
    << "web_search", "browser_navigate", "terminal_exec", "file_read",
       "file_write", "memory_store", "memory_recall", "code_execute",
       "create_agent", "http_request" >>

\* created_by="system": agent ids are 1, 2, ..., the reserved system creator
\* is 0
SystemCreator == 0

\* ToolDefinition(id, name, created_by, usage_count): the fields the core reads
ToolDefinition(id, name, created_by) ==
    [id |-> id, name |-> name, created_by |-> created_by, usage_count |-> 0]

\* mutant: ids handed out from a pool of ten, so the eleventh repeats the first
RegisterToolWrappingId(reg, name, created_by) ==
    Append(reg, ToolDefinition((Len(reg) % 10) + 1, name, created_by))

\* register_tool: a fresh id (uuid4), the definition appended to the dict
RegisterTool(reg, name, created_by) ==
    Append(reg, ToolDefinition(Len(reg) + 1, name, created_by))

\* _register_builtin_tools: every built-in registered once, creator "system"
RECURSIVE RegisterBuiltins(_, _)
RegisterBuiltins(reg, k) ==
    IF k > Len(BuiltinNames)
    THEN reg
    ELSE RegisterBuiltins(RegisterTool(reg, BuiltinNames[k], SystemCreator), k + 1)

\* mutant: construction without the call of _register_builtin_tools
RegistryWithoutBuiltins == << >>

\* ToolRegistry.__init__
NewRegistry == RegisterBuiltins(<< >>, 1)

\* f"autogen_{len(self.tools.tools)}"
AutogenName(n) ==
    CASE n = 10 -> "autogen_10"
      [] n = 11 -> "autogen_11"
      [] n = 12 -> "autogen_12"
      [] n = 13 -> "autogen_13"
      [] n = 14 -> "autogen_14"
      [] OTHER -> "autogen_n"

\* mutant: every action is mapped to a name no built-in tool has
ActionToolMapUnregistered(action) == "planner"

\* action_tool_map of _select_tool; "" stands for action_tool_map.get -> None
ActionToolMap(action) ==
    CASE action = "analyze" -> "memory_recall"
      [] action = "gather" -> "web_search"
      [] action = "execute" -> "code_execute"
      [] action = "verify" -> "memory_store"
      [] OTHER -> ""

\* _select_tool: the id of the first tool, in dict order, with the mapped
\* name; 0 stands for None
SelectTool(reg, action) ==
    LET name == ActionToolMap(action)
        hits == {k \in 1..Len(reg) : reg[k].name = name}
    IN IF name = "" \/ hits = {}
       THEN 0
       ELSE reg[CHOOSE k \in hits : \A j \in hits : k <= j].id

\* the fixed plan of _think
PlanSteps == << "analyze", "gather", "execute", "verify" >>

\* --------------------------------------------------------- execute_tool
\* The registry after execute_tool and the ToolExecution it returns.  An
\* unknown id returns an error record and changes nothing; a known id counts
\* the use and appends the record whether the body ran or raised.  bodyFails
\* says whether the tool body raises (the shipped placeholder body never does).
ToolExecution(tool_id, agent_id, ok) ==
    [tool_id |-> tool_id, agent_id |-> agent_id,
     result |-> IF ok THEN "executed" ELSE "None", error |-> ~ok]

\* mutant: the failed lookup is appended to the history as well
ExecuteToolLoggingUnknown(reg, execs, tool_id, agent_id, bodyFails) ==
    IF tool_id \notin {reg[k].id : k \in 1..Len(reg)}
    THEN [tools |-> reg,
          executions |-> Append(execs, ToolExecution(tool_id, agent_id, FALSE)),
          execution |-> ToolExecution(tool_id, agent_id, FALSE)]
    ELSE LET k == CHOOSE j \in 1..Len(reg) : reg[j].id = tool_id
             ex == ToolExecution(tool_id, agent_id, ~bodyFails)
         IN [tools |-> [reg EXCEPT ![k].usage_count = @ + 1],
             executions |-> Append(execs, ex),
             execution |-> ex]

\* mutant: a raising body is reported to the caller but neither counted nor
\* recorded
ExecuteToolDroppingFailures(reg, execs, tool_id, agent_id, bodyFails) ==
    IF tool_id \notin {reg[k].id : k \in 1..Len(reg)} \/ bodyFails
    THEN [tools |-> reg, executions |-> execs,
          execution |-> ToolExecution(tool_id, agent_id, FALSE)]
    ELSE LET k == CHOOSE j \in 1..Len(reg) : reg[j].id = tool_id
             ex == ToolExecution(tool_id, agent_id, TRUE)
         IN [tools |-> [reg EXCEPT ![k].usage_count = @ + 1],
             executions |-> Append(execs, ex),
             execution |-> ex]

ExecuteTool(reg, execs, tool_id, agent_id, bodyFails) ==
    IF tool_id \notin {reg[k].id : k \in 1..Len(reg)}
    THEN [tools |-> reg, executions |-> execs,
          execution |-> ToolExecution(tool_id, agent_id, FALSE)]
    ELSE LET k == CHOOSE j \in 1..Len(reg) : reg[j].id = tool_id
             ex == ToolExecution(tool_id, agent_id, ~bodyFails)
         IN [tools |-> [reg EXCEPT ![k].usage_count = @ + 1],
             executions |-> Append(execs, ex),
             execution |-> ex]

\* ------------------------------------------------------------- _reflect
\* One entry of result["details"]: has_success is FALSE for a step run
\* without a tool (the dict then has no "success" key).
StepResult(step, action, tool, has_success, success) ==
    [step |-> step, action |-> action, tool |-> tool,
     has_success |-> has_success, success |-> success]

\* s.get("success", True)
GetSuccess(s) == IF s.has_success THEN s.success ELSE TRUE

\* [s for s in steps if not s.get("success", True)]
FailedSteps(steps) == {k \in 1..Len(steps) : ~GetSuccess(steps[k])}

\* mutant: evolution already at exactly half of the steps failed
ShouldEvolveAtLeastHalf(failed, total) == 2 * failed >= total

\* mutant: evolution at any failed step
ShouldEvolveAnyFailure(failed, total) == failed > 0

\* len(failed_steps) > len(steps) / 2 (true division)
ShouldEvolve(failed, total) == 2 * failed > total

\* 1 - (len(failed_steps) / len(steps)) if steps else 1, as the fraction
\* num/den
SuccessRate(failed, total) ==
    IF total > 0
    THEN [num |-> total - failed, den |-> total]
    ELSE [num |-> 1, den |-> 1]

\* the insights appended by the two thresholds
Insights(failed, rate) ==
    (IF failed > 0 THEN << "consider creating new tools" >> ELSE << >>)
    \o (IF 10 * rate.num > 9 * rate.den
        THEN << "consider generalizing this approach" >> ELSE << >>)

\* the reflection dict of _reflect
Reflection(steps) ==
    LET failed == Cardinality(FailedSteps(steps))
        total == Len(steps)
        rate == SuccessRate(failed, total)
    IN [total_steps |-> total,
        failed_steps |-> failed,
        should_evolve |-> ShouldEvolve(failed, total),
        success_rate |-> rate,
        insights |-> Insights(failed, rate)]

NoReflection ==
    [total_steps |-> 0, failed_steps |-> 0, should_evolve |-> FALSE,
     success_rate |-> [num |-> 1, den |-> 1], insights |-> << >>]

\* ------------------------------------------------------------------ state
VARIABLES
    agents,             \* MultiAgentOrchestrator.agents: agent ids, insertion order
    config,             \* agent id -> AgentConfig (and whether memory is set)
    state,              \* agent id -> AgentState
    metrics,            \* agent id -> AgentMetrics
    tools,              \* agent id -> its ToolRegistry.tools, insertion order
    executions,         \* agent id -> its ToolRegistry.executions
    evolution_history,  \* agent id -> list of EvolutionRecord
    execution_log,      \* agent id -> list of phase records
    stubFails,          \* names of the tools whose body raises
    task_status,        \* task index -> Task.status
    max_concurrent,     \* argument of execute_parallel
    agent_ids,          \* list(self.agents.keys()) taken by execute_parallel
    semValue,           \* asyncio.Semaphore._value
    semWaiters,         \* asyncio.Semaphore._waiters
    co,                 \* task index -> frame of its execute_with_limit coroutine
    results,            \* task index -> slot of the gather result list
    mainPc,             \* position of the execute_parallel call
    running,            \* coroutine holding the event loop, 0 when it is free
    current_task,       \* agent index -> AgentZeroInstance.current_task, 0 for None
    task_result,        \* task index -> whether Task.result is set
    task_error,         \* task index -> whether Task.error is set
    regCall,            \* the last call made on a ToolRegistry and what it returned
    orchCall,           \* the last remove_agent/get_agent_status call and its result
    elapsed,            \* task index -> seconds since its execute_task call began
    history_file,       \* content of evolution_history.json
    system_prompt,      \* content of system_prompt.md: the markers appended to it
    logs,               \* the interaction logs analyze_daily_logs reads
    commits,            \* number of git commits made by commit_evolution
    evoCall             \* the last call made on a SelfEvolver and what it returned

vars ==
    << agents, config, state, metrics, tools, executions, evolution_history,
       execution_log, stubFails, task_status, max_concurrent, agent_ids,
       semValue, semWaiters, co, results, mainPc, running, current_task,
       task_result, task_error, regCall, orchCall, elapsed, history_file,
       system_prompt, logs, commits, evoCall >>

agentVars ==
    << state, metrics, tools, executions, evolution_history, execution_log >>

batchVars == << max_concurrent, agent_ids, task_status >>

\* what no step of EnhancedAgentZero or MultiAgentOrchestrator assigns
envVars ==
    << stubFails, current_task, task_result, task_error, regCall, orchCall,
       elapsed, history_file, system_prompt, logs, commits, evoCall >>

\* the files and counters of the SelfEvolver
ledgerVars == << history_file, system_prompt, logs, commits, evoCall >>

\* ----------------------------------------------------------------- inputs
\* AgentConfig.auto_evolve
AutoEvolveChoices == BOOLEAN

\* AgentConfig.max_steps
MaxStepsChoices == {3}

\* whether create_agent is given a neo4j_config, so that agent.memory is set
MemoryChoices == BOOLEAN

\* registries under test: the shipped one (no body raises), one whose
\* "execute" tool always raises, one where most tools raise
StubChoices ==
    { {}, {"code_execute"}, {"web_search", "code_execute", "memory_store"} }

\* measured execution times in ms
Latencies == {7}

\* AgentConfig.timeout_seconds: int = 300
DefaultTimeoutSeconds == 300

AgentConfig(auto_evolve, max_steps, memory) ==
    [name |-> "agent", auto_evolve |-> auto_evolve, max_steps |-> max_steps,
     memory |-> memory, timeout_seconds |-> DefaultTimeoutSeconds]

\* AgentMetrics()
AgentMetrics ==
    [tasks_completed |-> 0, tasks_failed |-> 0, tools_created |-> 0,
     tools_used |-> 0, avg_execution_time_ms |-> 0,
     success_rate |-> [num |-> 1, den |-> 1]]

\* ---------------------------------------------------------------- outcomes
Pending == [kind |-> "pending", status |-> "", agent_id |-> 0, task_id |-> 0,
            reflection |-> NoReflection]

\* the dict execute_task returns
SuccessOutcome(a, t, reflection) ==
    [kind |-> "dict", status |-> "success", agent_id |-> a, task_id |-> t,
     reflection |-> reflection]

ErrorOutcome(a, t) ==
    [kind |-> "dict", status |-> "error", agent_id |-> a, task_id |-> t,
     reflection |-> NoReflection]

\* the exception object gather stores under return_exceptions=True
ExceptionOutcome ==
    [kind |-> "exception", status |-> "", agent_id |-> 0, task_id |-> 0,
     reflection |-> NoReflection]

\* no call made on the registry yet
NoCall ==
    [n |-> 0, op |-> "none", name |-> "", created_by |-> 0, tool_id |-> 0,
     returned |-> 0,
     execution |-> ToolExecution(0, 0, TRUE)]

\* Task(): result and error start as None; AgentZeroInstance: no current task
NoTaskFields == [t \in 1..MaxTasks |-> FALSE]

NoCurrentTask == [a \in 1..MaxAgents |-> 0]

\* no remove_agent or get_agent_status call made yet
NoOrchCall ==
    [op |-> "none", agent_id |-> 0, returned |-> FALSE, statuses |-> << >>]

NoElapsed == [t \in 1..MaxTasks |-> 0]

\* evolution_history.json does not exist
NoFile == [exists |-> FALSE, data |-> << >>]

\* no call made on a SelfEvolver yet
NoEvoCall ==
    [n |-> 0, op |-> "none", evolver |-> 0, patterns |-> << >>,
     returned |-> FALSE, status |-> ""]

\* no SelfEvolver, no file of it, no orchestrator call, no clock running
NoOtherCalls ==
    /\ orchCall = NoOrchCall
    /\ elapsed = NoElapsed
    /\ history_file = NoFile
    /\ system_prompt = << >>
    /\ logs = << >>
    /\ commits = 0
    /\ evoCall = NoEvoCall

\* frame of one execute_with_limit(agent_id, task) coroutine
\* and of one AgentOrchestrator.execute_task or broadcast_task call: task is
\* the Task being executed, caller the orchestrator method, filter, it_pos,
\* it_len, it_used and outcomes the locals of the broadcast_task loop;
\* seen_agents, the keys of the agent dict when that loop began, is kept for
\* the properties only; execution_time is the local of execute_task holding
\* the measured time in ms, request_task the Task an HTTP broadcast request
\* was made with
Frame(a) ==
    [pc |-> "created", agent |-> a, k |-> 0, details |-> << >>,
     reflection |-> NoReflection, outcome |-> Pending, task |-> 0,
     caller |-> "execute_task", filter |-> "", it_pos |-> 0, it_len |-> 0,
     it_used |-> 0, outcomes |-> << >>, seen_agents |-> {},
     execution_time |-> 0, request_task |-> 0]

\* ------------------------------------------------------------------- Init
Init ==
    /\ agents = << >>
    /\ config = << >>
    /\ state = << >>
    /\ metrics = << >>
    /\ tools = << >>
    /\ executions = << >>
    /\ evolution_history = << >>
    /\ execution_log = << >>
    /\ stubFails \in StubChoices
    /\ task_status = << >>
    /\ max_concurrent = 0
    /\ agent_ids = << >>
    /\ semValue = 0
    /\ semWaiters = << >>
    /\ co = << >>
    /\ results = << >>
    /\ mainPc = "idle"
    /\ running = 0
    /\ current_task = NoCurrentTask
    /\ task_result = NoTaskFields
    /\ task_error = NoTaskFields
    /\ regCall = NoCall
    /\ NoOtherCalls

\* ----------------------------------------------------------- create_agent
\* MultiAgentOrchestrator.create_agent: a new EnhancedAgentZero with a fresh
\* id, its own ToolRegistry, empty history and fresh metrics.  Input bound:
\* the agents of one run are created with the same auto_evolve flag.
CreateAgent(cfg) ==
    /\ mainPc = "idle"
    /\ Len(agents) < MaxAgents
    /\ \A k \in 1..Len(config) : config[k].auto_evolve = cfg.auto_evolve
    /\ LET a == Len(agents) + 1
       IN /\ agents' = Append(agents, a)
          /\ config' = Append(config, cfg)
          /\ state' = Append(state, IDLE)
          /\ metrics' = Append(metrics, AgentMetrics)
          /\ tools' = Append(tools, NewRegistry)
          /\ executions' = Append(executions, << >>)
          /\ evolution_history' = Append(evolution_history, << >>)
          /\ execution_log' = Append(execution_log, << >>)
    /\ UNCHANGED << envVars, batchVars, semValue, semWaiters, co, results,
                    mainPc, running >>

\* ------------------------------------------------------- execute_parallel
\* agent_ids[i % len(agent_ids)] for the task at 1-based index i
RoundRobin(ids, i) == ids[((i - 1) % Len(ids)) + 1]

\* execute_parallel up to its await of gather: the semaphore, the snapshot of
\* the agent ids and one coroutine per task.  With no agent the modulo raises
\* ZeroDivisionError while the coroutine list is built.
StartParallel(n, mc) ==
    /\ mainPc = "idle"
    /\ running = 0
    /\ semValue' = mc
    /\ semWaiters' = << >>
    /\ max_concurrent' = mc
    /\ agent_ids' = agents
    /\ task_status' = [i \in 1..n |-> IDLE]
    /\ IF Len(agents) = 0
       THEN /\ mainPc' = "raised"
            /\ UNCHANGED << co, results >>
       ELSE /\ mainPc' = "gathering"
            /\ co' = [i \in 1..n |-> Frame(RoundRobin(agents, i))]
            /\ results' = [i \in 1..n |-> Pending]
    /\ UNCHANGED << agents, config, agentVars, envVars, running >>

\* mutant: a gate that never closes
SemNeverLocked == FALSE

\* Semaphore.locked()
SemLocked == semValue = 0 \/ semWaiters # << >>

\* mutant: the permit is neither handed to a waiter nor put back
ReleaseLosingPermit(frames) == [co |-> frames, value |-> semValue]

\* Semaphore.release(): the permit goes to the first waiter not yet woken,
\* else back to the counter.  frames is co as the releasing coroutine leaves it.
Release(frames) ==
    LET unwoken == {k \in 1..Len(semWaiters) : frames[semWaiters[k]].pc = "sem_wait"}
    IN IF unwoken = {}
       THEN [co |-> frames, value |-> semValue + 1]
       ELSE LET first == semWaiters[CHOOSE k \in unwoken : \A j \in unwoken : k <= j]
            IN [co |-> [frames EXCEPT ![first].pc = "sem_woken"],
                value |-> semValue]

\* mutant: outcomes collected in completion order
StoreResultInCompletionOrder(res, i, outcome) ==
    LET free == {k \in 1..Len(res) : res[k].kind = "pending"}
    IN [res EXCEPT ![CHOOSE k \in free : \A j \in free : k <= j] = outcome]

\* gather's result list: the outcome of the coroutine at index i goes to slot i
StoreResult(res, i, outcome) == [res EXCEPT ![i] = outcome]

\* the event loop runs the tasks gather created in creation order
Started(i) == \A j \in 1..(i - 1) : co[j].pc # "created"

\* async with semaphore, permit free: the coroutine goes on without yielding
AcquireFree(i) ==
    /\ mainPc = "gathering" /\ running = 0
    /\ co[i].pc = "created" /\ Started(i)
    /\ ~SemLocked
    /\ semValue' = semValue - 1
    /\ co' = [co EXCEPT ![i].pc = "admitted"]
    /\ running' = i
    /\ UNCHANGED << agents, config, agentVars, envVars, batchVars, semWaiters,
                    results, mainPc >>

\* async with semaphore, no permit: the coroutine queues and yields
AcquireBlocked(i) ==
    /\ mainPc = "gathering" /\ running = 0
    /\ co[i].pc = "created" /\ Started(i)
    /\ SemLocked
    /\ semWaiters' = Append(semWaiters, i)
    /\ co' = [co EXCEPT ![i].pc = "sem_wait"]
    /\ UNCHANGED << agents, config, agentVars, envVars, batchVars, semValue,
                    results, mainPc, running >>

\* a woken waiter resumes holding the permit release() handed to it
AcquireResume(i) ==
    /\ mainPc = "gathering" /\ running = 0
    /\ co[i].pc = "sem_woken"
    /\ semWaiters' = SelectSeq(semWaiters, LAMBDA w : w # i)
    /\ co' = [co EXCEPT ![i].pc = "admitted"]
    /\ running' = i
    /\ UNCHANGED << agents, config, agentVars, envVars, batchVars, semValue,
                    results, mainPc >>

\* execute_with_limit past the gate, then execute_task up to its first await:
\* with memory set the task-started memorize call, made before the try block
EnterExecuteTask(i) ==
    /\ running = i /\ co[i].pc = "admitted"
    /\ IF co[i].agent \notin {agents[k] : k \in 1..Len(agents)}
       THEN /\ co' = [co EXCEPT ![i].pc = "return",
                                ![i].outcome = ErrorOutcome(0, 0)]
            /\ UNCHANGED running
       ELSE IF config[co[i].agent].memory
            THEN /\ co' = [co EXCEPT ![i].pc = "await_memorize_started"]
                 /\ running' = 0
            ELSE /\ co' = [co EXCEPT ![i].pc = "think"]
                 /\ UNCHANGED running
    /\ UNCHANGED << agents, config, agentVars, envVars, batchVars, semValue,
                    semWaiters, results, mainPc >>

\* the task-started memorize call returns
MemorizeStartedOk(i) ==
    /\ running = 0 /\ co[i].pc = "await_memorize_started"
    /\ co' = [co EXCEPT ![i].pc = "think"]
    /\ running' = i
    /\ UNCHANGED << agents, config, agentVars, envVars, batchVars, semValue,
                    semWaiters, results, mainPc >>

\* the task-started memorize call raises (add_episode: "Graphiti not
\* initialized"): no handler in execute_task, the exception leaves
\* execute_with_limit through the async with, and gather stores it
MemorizeStartedRaises(i) ==
    /\ running = 0 /\ co[i].pc = "await_memorize_started"
    /\ LET rel == Release([co EXCEPT ![i].pc = "done",
                                     ![i].outcome = ExceptionOutcome])
       IN /\ co' = rel.co
          /\ semValue' = rel.value
    /\ results' = StoreResult(results, i, ExceptionOutcome)
    /\ UNCHANGED << agents, config, agentVars, envVars, batchVars,
                    semWaiters, mainPc, running >>

\* _think with `state` kept in one place for all agents
ThinkOnEveryAgent(i) ==
    /\ running = i /\ co[i].pc = "think"
    /\ state' = [a \in DOMAIN state |-> THINKING]
    /\ IF config[co[i].agent].memory
       THEN /\ co' = [co EXCEPT ![i].pc = "await_recall"]
            /\ running' = 0
       ELSE /\ co' = [co EXCEPT ![i].pc = "plan"]
            /\ UNCHANGED running
    /\ UNCHANGED << agents, config, metrics, tools, executions,
                    evolution_history, execution_log, envVars, batchVars,
                    semValue, semWaiters, results, mainPc >>

\* ----------------------------------------------------------------- _think
\* _think up to its await: the state is set, then memory is recalled
Think(i) ==
    /\ running = i /\ co[i].pc = "think"
    /\ state' = [state EXCEPT ![co[i].agent] = THINKING]
    /\ IF config[co[i].agent].memory
       THEN /\ co' = [co EXCEPT ![i].pc = "await_recall"]
            /\ running' = 0
       ELSE /\ co' = [co EXCEPT ![i].pc = "plan"]
            /\ UNCHANGED running
    /\ UNCHANGED << agents, config, metrics, tools, executions,
                    evolution_history, execution_log, envVars, batchVars,
                    semValue, semWaiters, results, mainPc >>

\* UnifiedMemory.recall returns (it catches the faults of both searches)
RecallReturns(i) ==
    /\ running = 0 /\ co[i].pc = "await_recall"
    /\ co' = [co EXCEPT ![i].pc = "plan"]
    /\ running' = i
    /\ UNCHANGED << agents, config, agentVars, envVars, batchVars, semValue,
                    semWaiters, results, mainPc >>

\* rest of _think: the fixed four-step plan is built and logged
Plan(i) ==
    /\ running = i /\ co[i].pc = "plan"
    /\ execution_log' = [execution_log EXCEPT ![co[i].agent] = Append(@, "think")]
    /\ co' = [co EXCEPT ![i].pc = "act_begin"]
    /\ UNCHANGED << agents, config, state, metrics, tools, executions,
                    evolution_history, envVars, batchVars, semValue,
                    semWaiters, results, mainPc, running >>

\* ------------------------------------------------------------------- _act
ActBegin(i) ==
    /\ running = i /\ co[i].pc = "act_begin"
    /\ state' = [state EXCEPT ![co[i].agent] = EXECUTING]
    /\ co' = [co EXCEPT ![i].pc = "act", ![i].k = 1, ![i].details = << >>]
    /\ UNCHANGED << agents, config, metrics, tools, executions,
                    evolution_history, execution_log, envVars, batchVars,
                    semValue, semWaiters, results, mainPc, running >>

\* mutant: the error of the ToolExecution is not carried into the step result
ActStepResultIgnoringError(k, action, tool_id, execution) ==
    IF tool_id # 0
    THEN StepResult(k - 1, action, tool_id, TRUE, TRUE)
    ELSE StepResult(k - 1, action, 0, FALSE, FALSE)

\* the step result _act appends for plan step k (enumerate index k - 1)
ActStepResult(k, action, tool_id, execution) ==
    IF tool_id # 0
    THEN StepResult(k - 1, action, tool_id, TRUE, ~execution.error)
    ELSE StepResult(k - 1, action, 0, FALSE, FALSE)

\* whether the loop of _act goes on to plan step k
ActContinues(k, max_steps) == k <= Len(PlanSteps)

\* one iteration of the loop of _act: select the tool, execute it through the
\* registry (no await inside execute_tool suspends), record the step result
ActStep(i) ==
    /\ running = i /\ co[i].pc = "act"
    /\ LET a == co[i].agent
           k == co[i].k
           action == PlanSteps[k]
           tool_id == SelectTool(tools[a], action)
           name == ActionToolMap(action)
           ex == ExecuteTool(tools[a], executions[a], tool_id, a,
                             name \in stubFails)
           next == IF ActContinues(k + 1, config[a].max_steps)
                   THEN "act" ELSE "reflect"
       IN IF tool_id # 0
          THEN /\ tools' = [tools EXCEPT ![a] = ex.tools]
               /\ executions' = [executions EXCEPT ![a] = ex.executions]
               /\ metrics' = [metrics EXCEPT ![a].tools_used = @ + 1]
               /\ co' = [co EXCEPT
                           ![i].details =
                               Append(@, ActStepResult(k, action, tool_id, ex.execution)),
                           ![i].k = k + 1,
                           ![i].pc = next]
          ELSE /\ co' = [co EXCEPT
                           ![i].details =
                               Append(@, ActStepResult(k, action, 0, ex.execution)),
                           ![i].k = k + 1,
                           ![i].pc = next]
               /\ UNCHANGED << tools, executions, metrics >>
    /\ UNCHANGED << agents, config, state, evolution_history, execution_log,
                    envVars, batchVars, semValue, semWaiters, results,
                    mainPc, running >>

\* --------------------------------------------------------------- _reflect
\* _reflect, then execute_task up to its next await: with memory set the
\* task-completed memorize call, made inside the try block
Reflect(i) ==
    /\ running = i /\ co[i].pc = "reflect"
    /\ state' = [state EXCEPT ![co[i].agent] = IDLE]
    /\ execution_log' = [execution_log EXCEPT ![co[i].agent] = Append(@, "reflect")]
    /\ IF config[co[i].agent].memory
       THEN /\ co' = [co EXCEPT ![i].reflection = Reflection(co[i].details),
                                ![i].pc = "await_memorize_completed"]
            /\ running' = 0
       ELSE /\ co' = [co EXCEPT ![i].reflection = Reflection(co[i].details),
                                ![i].pc = "update_metrics"]
            /\ UNCHANGED running
    /\ UNCHANGED << agents, config, metrics, tools, executions,
                    evolution_history, envVars, batchVars, semValue,
                    semWaiters, results, mainPc >>

MemorizeCompletedOk(i) ==
    /\ running = 0 /\ co[i].pc = "await_memorize_completed"
    /\ co' = [co EXCEPT ![i].pc = "update_metrics"]
    /\ running' = i
    /\ UNCHANGED << agents, config, agentVars, envVars, batchVars, semValue,
                    semWaiters, results, mainPc >>

\* mutant: the failure is counted and the call goes on past the raise
HandleExceptionResuming(i) ==
    /\ metrics' = [metrics EXCEPT ![co[i].agent].tasks_failed = @ + 1]
    /\ co' = [co EXCEPT ![i].pc = "update_metrics"]

\* the except branch of execute_task: the failure is counted and an error
\* dict returned; neither the agent's state nor the task is written
HandleException(i) ==
    /\ metrics' = [metrics EXCEPT ![co[i].agent].tasks_failed = @ + 1]
    /\ co' = [co EXCEPT ![i].pc = "return",
                        ![i].outcome = ErrorOutcome(co[i].agent, i)]

\* the task-completed memorize call raises inside the try block
MemorizeCompletedRaises(i) ==
    /\ running = 0 /\ co[i].pc = "await_memorize_completed"
    /\ HandleException(i)
    /\ running' = i
    /\ UNCHANGED << agents, config, state, tools, executions,
                    evolution_history, execution_log, envVars, batchVars,
                    semValue, semWaiters, results, mainPc >>

\* --------------------------------------------------------------- metrics
\* mutant: the average is overwritten with the latest measured time
UpdateMetricsOfLatest(m, execution_time_ms) ==
    [m EXCEPT !.avg_execution_time_ms = execution_time_ms]

\* _update_metrics(execution_time_ms), called after tasks_completed += 1
UpdateMetricsOf(m, execution_time_ms) ==
    LET total == m.tasks_completed + m.tasks_failed
        rate == IF total > 0
                THEN [num |-> m.tasks_completed, den |-> total]
                ELSE m.success_rate
        avg == IF m.tasks_completed > 1
               THEN (m.avg_execution_time_ms * (m.tasks_completed - 1)
                     + execution_time_ms) \div m.tasks_completed
               ELSE execution_time_ms
    IN [m EXCEPT !.success_rate = rate, !.avg_execution_time_ms = avg]

\* the success path of execute_task after the memorize call: the task is
\* counted as completed and the metrics are updated
UpdateMetrics(i, execution_time_ms) ==
    /\ running = i /\ co[i].pc = "update_metrics"
    /\ metrics' = [metrics EXCEPT ![co[i].agent] =
                     UpdateMetricsOf([@ EXCEPT !.tasks_completed = @ + 1],
                                     execution_time_ms)]
    /\ co' = [co EXCEPT ![i].pc = "check_evolve",
                        ![i].execution_time = execution_time_ms]
    /\ UNCHANGED << agents, config, state, tools, executions,
                    evolution_history, execution_log, envVars, batchVars,
                    semValue, semWaiters, results, mainPc, running >>

\* ---------------------------------------------------------------- _evolve
\* EvolutionRecord(trigger="low_success_rate", changes, success=True)
EvolutionRecord(new_tool_id) ==
    [trigger |-> "low_success_rate", new_tools_created |-> 1,
     strategy_changed |-> TRUE, success |-> TRUE, tool_id |-> new_tool_id]

\* mutant: the auto-generated tool is attributed to the system creator
EvolveToolsAsSystem(reg, a) ==
    RegisterTool(reg, AutogenName(Len(reg)), SystemCreator)

\* the registry after _evolve registered the auto-generated tool of agent a
EvolveTools(reg, a) == RegisterTool(reg, AutogenName(Len(reg)), a)

\* the guard execute_task puts before _evolve: reflection.get("should_evolve")
EvolveGuard(cfg, reflection) == reflection.should_evolve

\* if reflection.get("should_evolve"): await self._evolve(reflection), then
\* the success dict is returned
CheckEvolve(i) ==
    /\ running = i /\ co[i].pc = "check_evolve"
    /\ LET a == co[i].agent
       IN IF EvolveGuard(config[a], co[i].reflection)
          THEN /\ tools' = [tools EXCEPT ![a] = EvolveTools(@, a)]
               /\ metrics' = [metrics EXCEPT ![a].tools_created = @ + 1]
               /\ evolution_history' =
                    [evolution_history EXCEPT ![a] =
                        Append(@, EvolutionRecord(Len(tools[a]) + 1))]
          ELSE UNCHANGED << tools, metrics, evolution_history >>
    /\ co' = [co EXCEPT ![i].pc = "return",
                        ![i].outcome =
                            SuccessOutcome(co[i].agent, i, co[i].reflection)]
    /\ UNCHANGED << agents, config, state, executions, execution_log,
                    envVars, batchVars, semValue, semWaiters, results,
                    mainPc, running >>

\* ----------------------------------------------------------------- return
\* execute_task returns its dict, execute_with_limit leaves the async with
\* (the permit is released) and gather stores the outcome
Return(i) ==
    /\ running = i /\ co[i].pc = "return"
    /\ LET rel == Release([co EXCEPT ![i].pc = "done", ![i].k = 0,
                                     ![i].details = << >>,
                                     ![i].reflection = NoReflection,
                                     ![i].execution_time = 0])
       IN /\ co' = rel.co
          /\ semValue' = rel.value
    /\ results' = StoreResult(results, i, co[i].outcome)
    /\ running' = 0
    /\ UNCHANGED << agents, config, agentVars, envVars, batchVars,
                    semWaiters, mainPc >>

\* await asyncio.gather(...) returns once every coroutine is done
GatherReturns ==
    /\ mainPc = "gathering" /\ running = 0
    /\ \A i \in 1..Len(co) : co[i].pc = "done"
    /\ mainPc' = "returned"
    /\ UNCHANGED << agents, config, agentVars, envVars, batchVars, semValue,
                    semWaiters, co, results, running >>

\* ------------------------------------------------------------------- Next
Tasks == 1..Len(co)

Next ==
    \/ \E ae \in AutoEvolveChoices, ms \in MaxStepsChoices, mem \in MemoryChoices :
          CreateAgent(AgentConfig(ae, ms, mem))
    \/ \E n \in 1..MaxTasks, mc \in 1..MaxConc : StartParallel(n, mc)
    \/ \E i \in Tasks : AcquireFree(i)
    \/ \E i \in Tasks : AcquireBlocked(i)
    \/ \E i \in Tasks : AcquireResume(i)
    \/ \E i \in Tasks : EnterExecuteTask(i)
    \/ \E i \in Tasks : MemorizeStartedOk(i)
    \/ \E i \in Tasks : MemorizeStartedRaises(i)
    \/ \E i \in Tasks : Think(i)
    \/ \E i \in Tasks : RecallReturns(i)
    \/ \E i \in Tasks : Plan(i)
    \/ \E i \in Tasks : ActBegin(i)
    \/ \E i \in Tasks : ActStep(i)
    \/ \E i \in Tasks : Reflect(i)
    \/ \E i \in Tasks : MemorizeCompletedOk(i)
    \/ \E i \in Tasks : MemorizeCompletedRaises(i)
    \/ \E i \in Tasks, t \in Latencies : UpdateMetrics(i, t)
    \/ \E i \in Tasks : CheckEvolve(i)
    \/ \E i \in Tasks : Return(i)
    \/ GatherReturns

Spec == Init /\ [][Next]_vars

\* ------------------------------------------------- _reflect on its own
\* Step-result sequences of bounded length: every step carries a true flag,
\* a false flag, or no flag at all.
FlagKinds == {"ok", "fail", "none"}

StepOfKind(k, kind) ==
    CASE kind = "ok" -> StepResult(k - 1, "analyze", 1, TRUE, TRUE)
      [] kind = "fail" -> StepResult(k - 1, "analyze", 1, TRUE, FALSE)
      [] OTHER -> StepResult(k - 1, "analyze", 0, FALSE, FALSE)

StepResultSeqs ==
    UNION { { [k \in 1..n |-> StepOfKind(k, f[k])] : f \in [1..n -> FlagKinds] }
            : n \in 0..MaxSeqLen }

\* One agent in any state, with any counters, about to reflect on any result.
InitReflect ==
    /\ agents = << 1 >>
    /\ \E mem \in MemoryChoices, ms \in MaxStepsChoices :
          config = << AgentConfig(TRUE, ms, mem) >>
    /\ \E st \in AgentState : state = << st >>
    /\ \E done \in 0..1 :
          metrics = << [AgentMetrics EXCEPT !.tasks_completed = done] >>
    /\ tools = << NewRegistry >>
    /\ executions = << << >> >>
    /\ evolution_history = << << >> >>
    /\ \E log \in {<< >>, << "think" >>} : execution_log = << log >>
    /\ stubFails = {}
    /\ task_status = << IDLE >>
    /\ max_concurrent = 1
    /\ agent_ids = << 1 >>
    /\ semValue = 0
    /\ semWaiters = << >>
    /\ \E d \in StepResultSeqs :
          co = << [Frame(1) EXCEPT !.pc = "reflect", !.details = d] >>
    /\ results = << Pending >>
    /\ mainPc = "gathering"
    /\ running = 1
    /\ current_task = NoCurrentTask
    /\ task_result = NoTaskFields
    /\ task_error = NoTaskFields
    /\ regCall = NoCall
    /\ NoOtherCalls

NextReflect == \E i \in Tasks : Reflect(i)

SpecReflect == InitReflect /\ [][NextReflect]_vars

\* =============================================== the registry on its own
\* One ToolRegistry driven directly through register_tool and execute_tool,
\* the calls in any order: the registry of agent 1, with the agents of the
\* orchestrator registering and executing against it.
MaxCalls == 4

\* names given to tools registered at run time
RuntimeNames == {"autogen_10"}

\* tool ids passed to execute_tool: one no registration ever returned (0),
\* the first built-in and the tool registered last
ProbeIds(reg) == {0, 1, Len(reg)}

\* the tool_id -> ToolDefinition dict as the set of its keys
ToolIds(reg) == {reg[k].id : k \in 1..Len(reg)}

InitRegistry ==
    /\ agents = << >>
    /\ config = << >>
    /\ state = << >>
    /\ metrics = << >>
    /\ tools = << NewRegistry >>
    /\ executions = << << >> >>
    /\ evolution_history = << >>
    /\ execution_log = << >>
    /\ stubFails \in StubChoices
    /\ task_status = << >>
    /\ max_concurrent = 0
    /\ agent_ids = << >>
    /\ semValue = 0
    /\ semWaiters = << >>
    /\ co = << >>
    /\ results = << >>
    /\ mainPc = "registry"
    /\ running = 0
    /\ current_task = NoCurrentTask
    /\ task_result = NoTaskFields
    /\ task_error = NoTaskFields
    /\ regCall = NoCall
    /\ NoOtherCalls

registryRest ==
    << agents, config, state, metrics, evolution_history, execution_log,
       stubFails, batchVars, semValue, semWaiters, co, results, mainPc,
       running, current_task, task_result, task_error, orchCall, elapsed,
       ledgerVars >>

\* register_tool(name, ..., created_by) called by an agent at run time
RegisterCall(name, created_by) ==
    /\ regCall.n < MaxCalls
    /\ LET reg == RegisterTool(tools[1], name, created_by)
       IN /\ tools' = [tools EXCEPT ![1] = reg]
          /\ regCall' = [NoCall EXCEPT !.n = regCall.n + 1,
                                       !.op = "register",
                                       !.name = name,
                                       !.created_by = created_by,
                                       !.returned = reg[Len(reg)].id]
    /\ UNCHANGED << executions, registryRest >>

\* execute_tool(tool_id, agent_id, arguments)
ExecuteCall(tool_id, agent_id) ==
    /\ regCall.n < MaxCalls
    /\ LET bodyFails == \E k \in 1..Len(tools[1]) :
                            /\ tools[1][k].id = tool_id
                            /\ tools[1][k].name \in stubFails
           r == ExecuteTool(tools[1], executions[1], tool_id, agent_id,
                            bodyFails)
       IN /\ tools' = [tools EXCEPT ![1] = r.tools]
          /\ executions' = [executions EXCEPT ![1] = r.executions]
          /\ regCall' = [NoCall EXCEPT !.n = regCall.n + 1,
                                       !.op = "execute",
                                       !.tool_id = tool_id,
                                       !.execution = r.execution]
    /\ UNCHANGED registryRest

NextRegistry ==
    \/ \E name \in RuntimeNames, a \in 1..MaxAgents : RegisterCall(name, a)
    \/ \E id \in ProbeIds(tools[1]), a \in 1..MaxAgents : ExecuteCall(id, a)

SpecRegistry == InitRegistry /\ [][NextRegistry]_vars

\* ======================================= AgentOrchestrator, AgentZeroInstance
\* The base classes of agent_zero.py: an AgentOrchestrator whose callers
\* create and remove agents and submit tasks, each call a coroutine of its
\* own on the one event loop.  The shipped _plan, _execute_plan and _reflect
\* contain no statement that raises, so the except branch of
\* AgentZeroInstance.execute_task is never entered.  Agent ids are numbered
\* in creation order and never reused (uuid4); config, state and
\* execution_log keep the entry of a removed agent, as the object lives on
\* while a coroutine holds it.

\* calls of execute_task and broadcast_task made on the orchestrator
MaxRequests == 2

\* AgentConfig.max_steps given to the base agents
BaseMaxStepsChoices == {2, 100}

\* AgentConfig.name given to the base agents
BaseNames == {"researcher"}

\* AgentConfig(name=..., max_steps=...)
BaseAgentConfig(name, max_steps) ==
    [AgentConfig(FALSE, max_steps, FALSE) EXCEPT !.name = name]

\* the plan _plan returns
BasePlanSteps == << "analyze", "execute", "verify" >>

\* mutant: an unknown agent id answered with a success dict
NotFoundAsSuccess ==
    [kind |-> "dict", status |-> "success", agent_id |-> 0, task_id |-> 0,
     reflection |-> NoReflection]

\* {"status": "error", "error": "Agent ... not found"}
NotFoundOutcome ==
    [kind |-> "dict", status |-> "error", agent_id |-> 0, task_id |-> 0,
     reflection |-> NoReflection]

\* agent_id in self.agents
KnownAgent(ags, agent_id) == agent_id \in {ags[k] : k \in 1..Len(ags)}

\* mutant: del self.agents[...] of the oldest agent instead of the named one
DeleteOldest(ags, agent_id) == Tail(ags)

\* del self.agents[agent_id]
DeleteAgent(ags, agent_id) == SelectSeq(ags, LAMBDA x : x # agent_id)

InitBase ==
    /\ agents = << >>
    /\ config = << >>
    /\ state = << >>
    /\ metrics = << >>
    /\ tools = << >>
    /\ executions = << >>
    /\ evolution_history = << >>
    /\ execution_log = << >>
    /\ stubFails = {}
    /\ task_status = << >>
    /\ max_concurrent = 0
    /\ agent_ids = << >>
    /\ semValue = 0
    /\ semWaiters = << >>
    /\ co = << >>
    /\ results = << >>
    /\ mainPc = "base"
    /\ running = 0
    /\ current_task = NoCurrentTask
    /\ task_result = << >>
    /\ task_error = << >>
    /\ regCall = NoCall
    /\ NoOtherCalls

\* what the base classes do not have
baseFixed ==
    << metrics, tools, executions, evolution_history, stubFails,
       max_concurrent, agent_ids, semValue, semWaiters, mainPc, regCall,
       elapsed, ledgerVars >>

\* and no remove_agent call is made
baseRest == << baseFixed, orchCall >>

\* AgentOrchestrator.create_agent.  Input bound: the agents of one run are
\* created with the same max_steps.
BaseCreateAgent(cfg) ==
    /\ running = 0
    /\ Len(config) < MaxAgents
    /\ \A k \in 1..Len(config) : config[k].max_steps = cfg.max_steps
    /\ agents' = Append(agents, Len(config) + 1)
    /\ config' = Append(config, cfg)
    /\ state' = Append(state, IDLE)
    /\ execution_log' = Append(execution_log, << >>)
    /\ UNCHANGED << baseRest, task_status, co, results, running,
                    current_task, task_result, task_error >>

\* AgentOrchestrator.remove_agent
BaseRemoveAgent(agent_id) ==
    /\ running = 0
    /\ IF KnownAgent(agents, agent_id)
       THEN /\ agents' = DeleteAgent(agents, agent_id)
            /\ orchCall' = [NoOrchCall EXCEPT !.op = "remove_agent",
                                              !.agent_id = agent_id,
                                              !.returned = TRUE]
       ELSE /\ orchCall' = [NoOrchCall EXCEPT !.op = "remove_agent",
                                              !.agent_id = agent_id,
                                              !.returned = FALSE]
            /\ UNCHANGED agents
    /\ UNCHANGED << baseFixed, config, state, execution_log, task_status, co,
                    results, running, current_task, task_result, task_error >>

\* AgentZeroInstance.get_status
GetStatus(a) ==
    [id |-> a, state |-> state[a], current_task |-> current_task[a],
     execution_steps |-> Len(execution_log[a])]

\* AgentOrchestrator.get_agent_status; agent_id 0 stands for None
GetAgentStatus(agent_id) ==
    IF agent_id # 0
    THEN IF KnownAgent(agents, agent_id)
         THEN << GetStatus(agent_id) >>
         ELSE << >>
    ELSE [k \in 1..Len(agents) |-> GetStatus(agents[k])]

\* a caller builds a Task and awaits AgentOrchestrator.execute_task(agent_id,
\* task): an id that is not a key of self.agents returns the error dict at
\* once, otherwise AgentZeroInstance.execute_task is entered
BaseSubmit(agent_id) ==
    /\ running = 0
    /\ Len(co) < MaxRequests
    /\ task_status' = Append(task_status, IDLE)
    /\ task_result' = Append(task_result, FALSE)
    /\ task_error' = Append(task_error, FALSE)
    /\ IF KnownAgent(agents, agent_id)
       THEN /\ co' = Append(co, [Frame(agent_id) EXCEPT
                                    !.pc = "enter",
                                    !.task = Len(task_status) + 1])
            /\ results' = Append(results, Pending)
            /\ running' = Len(co) + 1
       ELSE /\ co' = Append(co, [Frame(agent_id) EXCEPT
                                    !.pc = "done",
                                    !.task = Len(task_status) + 1,
                                    !.outcome = NotFoundOutcome])
            /\ results' = Append(results, NotFoundOutcome)
            /\ UNCHANGED running
    /\ UNCHANGED << baseRest, agents, config, state, execution_log,
                    current_task >>

\* execute_task, lines before the try: the task is taken, state and status
\* become THINKING
BaseEnter(r) ==
    /\ running = r /\ co[r].pc = "enter"
    /\ current_task' = [current_task EXCEPT ![co[r].agent] = co[r].task]
    /\ state' = [state EXCEPT ![co[r].agent] = THINKING]
    /\ task_status' = [task_status EXCEPT ![co[r].task] = THINKING]
    /\ co' = [co EXCEPT ![r].pc = "plan"]
    /\ UNCHANGED << baseRest, agents, config, execution_log, results,
                    running, task_result, task_error >>

\* _plan: the fixed plan, logged
BasePlan(r) ==
    /\ running = r /\ co[r].pc = "plan"
    /\ execution_log' =
          [execution_log EXCEPT ![co[r].agent] = Append(@, "planning")]
    /\ co' = [co EXCEPT ![r].pc = "execute_begin"]
    /\ UNCHANGED << baseRest, agents, config, state, task_status, results,
                    running, current_task, task_result, task_error >>

\* state and status become EXECUTING
BaseExecuteBegin(r) ==
    /\ running = r /\ co[r].pc = "execute_begin"
    /\ state' = [state EXCEPT ![co[r].agent] = EXECUTING]
    /\ task_status' = [task_status EXCEPT ![co[r].task] = EXECUTING]
    /\ co' = [co EXCEPT ![r].pc = "step", ![r].k = 1, ![r].details = << >>]
    /\ UNCHANGED << baseRest, agents, config, execution_log, results,
                    running, current_task, task_result, task_error >>

\* whether the loop of _execute_plan runs plan step k (enumerate index k - 1)
BaseContinues(k, max_steps) == k <= Len(BasePlanSteps) /\ ~(k - 1 >= max_steps)

\* one iteration of the loop of _execute_plan up to its asyncio.sleep, or the
\* end of the loop
BaseStep(r) ==
    /\ running = r /\ co[r].pc = "step"
    /\ LET a == co[r].agent
           k == co[r].k
       IN IF BaseContinues(k, config[a].max_steps)
          THEN /\ execution_log' =
                     [execution_log EXCEPT ![a] = Append(@, "execution")]
               /\ co' = [co EXCEPT
                           ![r].details =
                               Append(@, StepResult(k - 1, BasePlanSteps[k],
                                                    0, FALSE, FALSE)),
                           ![r].pc = "sleep"]
               /\ running' = 0
          ELSE /\ co' = [co EXCEPT ![r].pc = "reflect"]
               /\ UNCHANGED << execution_log, running >>
    /\ UNCHANGED << baseRest, agents, config, state, task_status, results,
                    current_task, task_result, task_error >>

\* asyncio.sleep(0.1) is over: the loop goes to the next plan step
BaseWake(r) ==
    /\ running = 0 /\ co[r].pc = "sleep"
    /\ co' = [co EXCEPT ![r].pc = "step", ![r].k = @ + 1]
    /\ running' = r
    /\ UNCHANGED << baseRest, agents, config, state, execution_log,
                    task_status, results, current_task, task_result,
                    task_error >>

\* _reflect: the reflection entry is logged
BaseReflect(r) ==
    /\ running = r /\ co[r].pc = "reflect"
    /\ execution_log' =
          [execution_log EXCEPT ![co[r].agent] = Append(@, "reflection")]
    /\ co' = [co EXCEPT ![r].pc = "complete"]
    /\ UNCHANGED << baseRest, agents, config, state, task_status, results,
                    running, current_task, task_result, task_error >>

\* state and status become COMPLETED, the result is stored in the task and
\* the success dict returned: to the caller of AgentOrchestrator.execute_task,
\* or to the loop of broadcast_task, which appends it to its results
BaseComplete(r) ==
    /\ running = r /\ co[r].pc = "complete"
    /\ state' = [state EXCEPT ![co[r].agent] = COMPLETED]
    /\ task_status' = [task_status EXCEPT ![co[r].task] = COMPLETED]
    /\ task_result' = [task_result EXCEPT ![co[r].task] = TRUE]
    /\ LET out == SuccessOutcome(co[r].agent, co[r].task, NoReflection)
       IN IF co[r].caller = "broadcast_task"
          THEN /\ co' = [co EXCEPT ![r].pc = "next_agent",
                                   ![r].outcomes = Append(@, out)]
               /\ UNCHANGED << results, running >>
          ELSE /\ co' = [co EXCEPT ![r].pc = "done", ![r].outcome = out]
               /\ results' = [results EXCEPT ![r] = out]
               /\ running' = 0
    /\ UNCHANGED << baseRest, agents, config, execution_log, current_task,
                    task_error >>

\* the steps of AgentZeroInstance.execute_task
BaseExecuteTask(r) ==
    \/ BaseEnter(r)
    \/ BasePlan(r)
    \/ BaseExecuteBegin(r)
    \/ BaseStep(r)
    \/ BaseWake(r)
    \/ BaseReflect(r)
    \/ BaseComplete(r)

\* agents are created and tasks submitted, no agent is removed
NextBase ==
    \/ \E name \in BaseNames, ms \in BaseMaxStepsChoices :
          BaseCreateAgent(BaseAgentConfig(name, ms))
    \/ \E a \in 1..MaxAgents : BaseSubmit(a)
    \/ \E r \in Tasks : BaseExecuteTask(r)

SpecBase == InitBase /\ [][NextBase]_vars

\* calls of execute_task or broadcast_task made while agents are also being
\* created and removed
MaxChurnRequests == 1

\* agents are created and removed while tasks are submitted
NextRemove ==
    \/ \E name \in BaseNames, ms \in BaseMaxStepsChoices :
          BaseCreateAgent(BaseAgentConfig(name, ms))
    \/ \E a \in 1..MaxAgents : BaseRemoveAgent(a)
    \/ \E a \in 1..MaxAgents : Len(co) < MaxChurnRequests /\ BaseSubmit(a)
    \/ \E r \in Tasks : BaseExecuteTask(r)

SpecRemove == InitBase /\ [][NextRemove]_vars

\* ---------------------------------------------------------- broadcast_task
\* The loop `for agent_id, agent in self.agents.items()` runs on the live
\* dict and awaits inside its body.  A dict of fewer than six keys is never
\* resized, so its entry table is the ids in creation order with the removed
\* ones left as dummies; the items iterator keeps the position in that table
\* (it_pos), the number of items still to yield (it_len) and the size of the
\* dict when it was made (it_used), and next() raises RuntimeError when the
\* size differs from it_used, or when an entry is found with it_len at 0.

\* AgentConfig.name given to the agents a broadcast is filtered over
BroadcastNames == {"researcher", "coder"}

\* agent_filter; "" stands for None
BroadcastFilters == {"", "researcher"}

\* {"status": "success", "results": results}
BroadcastOutcome ==
    [kind |-> "dict", status |-> "success", agent_id |-> 0, task_id |-> 0,
     reflection |-> NoReflection]

\* if agent_filter and agent.config.name != agent_filter: continue
FilteredOut(cfg, filter) == filter # "" /\ cfg.name # filter

\* a caller awaits AgentOrchestrator.broadcast_task(task, agent_filter): up
\* to the first next() of the loop
BroadcastSubmit(filter) ==
    /\ running = 0
    /\ co' = Append(co, [Frame(0) EXCEPT
                            !.pc = "next_agent",
                            !.caller = "broadcast_task",
                            !.filter = filter,
                            !.it_pos = 1,
                            !.it_len = Len(agents),
                            !.it_used = Len(agents),
                            !.seen_agents = {agents[k] : k \in 1..Len(agents)}])
    /\ results' = Append(results, Pending)
    /\ running' = Len(co) + 1
    /\ UNCHANGED << baseRest, agents, config, state, execution_log,
                    task_status, current_task, task_result, task_error >>

\* one next() of the loop: RuntimeError, the end of the loop and the return
\* of the dict, an agent skipped by the filter, or a fresh Task and the entry
\* into that agent's execute_task
BroadcastNext(r) ==
    /\ running = r /\ co[r].pc = "next_agent"
    /\ LET live == {i \in co[r].it_pos..Len(config) : KnownAgent(agents, i)}
           a == CHOOSE i \in live : \A j \in live : i <= j
       IN IF co[r].it_used # Len(agents) \/ (live # {} /\ co[r].it_len = 0)
          THEN /\ co' = [co EXCEPT ![r].pc = "done",
                                   ![r].outcome = ExceptionOutcome]
               /\ results' = [results EXCEPT ![r] = ExceptionOutcome]
               /\ running' = 0
               /\ UNCHANGED << task_status, task_result, task_error >>
          ELSE IF live = {}
          THEN /\ co' = [co EXCEPT ![r].pc = "done",
                                   ![r].outcome = BroadcastOutcome]
               /\ results' = [results EXCEPT ![r] = BroadcastOutcome]
               /\ running' = 0
               /\ UNCHANGED << task_status, task_result, task_error >>
          ELSE IF FilteredOut(config[a], co[r].filter)
          THEN /\ co' = [co EXCEPT ![r].it_pos = a + 1,
                                   ![r].it_len = @ - 1]
               /\ UNCHANGED << results, running, task_status, task_result,
                               task_error >>
          ELSE /\ co' = [co EXCEPT ![r].it_pos = a + 1,
                                   ![r].it_len = @ - 1,
                                   ![r].agent = a,
                                   ![r].task = Len(task_status) + 1,
                                   ![r].pc = "enter"]
               /\ task_status' = Append(task_status, IDLE)
               /\ task_result' = Append(task_result, FALSE)
               /\ task_error' = Append(task_error, FALSE)
               /\ UNCHANGED << results, running >>
    /\ UNCHANGED << baseRest, agents, config, state, execution_log,
                    current_task >>

\* broadcasts made while agents are created and removed
NextBroadcast ==
    \/ \E name \in BroadcastNames, ms \in BaseMaxStepsChoices :
          BaseCreateAgent(BaseAgentConfig(name, ms))
    \/ \E a \in 1..MaxAgents : BaseRemoveAgent(a)
    \/ \E f \in BroadcastFilters :
          Len(co) < MaxChurnRequests /\ BroadcastSubmit(f)
    \/ \E r \in Tasks : BroadcastNext(r)
    \/ \E r \in Tasks : BaseExecuteTask(r)

SpecBroadcast == InitBase /\ [][NextBroadcast]_vars

\* ---------------------------------------------------------- timeout_seconds
\* AgentConfig.timeout_seconds is a field of the configuration; the agents
\* below are created with a short one so that its expiry falls inside a run.
\* Time passes while the event loop is idle, that is while every running
\* execute_task is suspended in a call of the memory collaborator; a timer
\* armed by the code would have to fire in such a step.

\* AgentConfig.timeout_seconds of the agents under test
TimeoutChoices == {2}

\* seconds counted per task
MaxElapsed == 3

\* the awaits of EnhancedAgentZero.execute_task on the memory collaborator
AwaitPcs ==
    {"await_memorize_started", "await_recall", "await_memorize_completed"}

\* one second passes for every execute_task suspended in a collaborator call;
\* no step of the code reads timeout_seconds or cancels the call
Tick ==
    /\ running = 0
    /\ \E i \in Tasks : co[i].pc \in AwaitPcs /\ elapsed[i] < MaxElapsed
    /\ elapsed' = [t \in DOMAIN elapsed |->
                      IF t \in Tasks /\ co[t].pc \in AwaitPcs
                                     /\ elapsed[t] < MaxElapsed
                      THEN elapsed[t] + 1
                      ELSE elapsed[t]]
    /\ UNCHANGED << agents, config, agentVars, batchVars, semValue,
                    semWaiters, co, results, mainPc, running, stubFails,
                    current_task, task_result, task_error, regCall, orchCall,
                    ledgerVars >>

\* the shipped registry, agents with memory and a short timeout
InitTimeout == Init /\ stubFails = {}

NextTimeout ==
    \/ \E ms \in MaxStepsChoices, ts \in TimeoutChoices :
          CreateAgent([AgentConfig(FALSE, ms, TRUE)
                          EXCEPT !.timeout_seconds = ts])
    \/ \E n \in 1..MaxTasks, mc \in 1..MaxConc : StartParallel(n, mc)
    \/ \E i \in Tasks : AcquireFree(i)
    \/ \E i \in Tasks : AcquireBlocked(i)
    \/ \E i \in Tasks : AcquireResume(i)
    \/ \E i \in Tasks : EnterExecuteTask(i)
    \/ \E i \in Tasks : MemorizeStartedOk(i)
    \/ \E i \in Tasks : MemorizeStartedRaises(i)
    \/ \E i \in Tasks : Think(i)
    \/ \E i \in Tasks : RecallReturns(i)
    \/ \E i \in Tasks : Plan(i)
    \/ \E i \in Tasks : ActBegin(i)
    \/ \E i \in Tasks : ActStep(i)
    \/ \E i \in Tasks : Reflect(i)
    \/ \E i \in Tasks : MemorizeCompletedOk(i)
    \/ \E i \in Tasks : MemorizeCompletedRaises(i)
    \/ \E i \in Tasks, t \in Latencies : UpdateMetrics(i, t)
    \/ \E i \in Tasks : CheckEvolve(i)
    \/ \E i \in Tasks : Return(i)
    \/ GatherReturns
    \/ Tick

SpecTimeout == InitTimeout /\ [][NextTimeout]_vars

\* ------------------------------------------------------------- SelfEvolver
\* evolution.py: every SelfEvolver works on the same three paths, so
\* evolution_history.json, system_prompt.md and the log directory are shared
\* while each instance keeps its own self.evolution_history, here
\* evolution_history[e].  No method suspends (the awaits are on coroutines
\* that never yield), so each call is one step.

\* SelfEvolver instances constructed
MaxEvolvers == 2

\* calls of evolve and run_nightly_mutation
MaxEvoCalls == 4

\* interactions logged
MaxLogs == 7

\* the arguments evolve is called with
PatternChoices ==
    { << >>, << "code_generation_issues" >>,
      << "response_too_verbose", "factual_inaccuracy" >> }

\* datetime.now(): the clock advances with every call
Now == [kind |-> "datetime", t |-> evoCall.n + 1]

\* EvolutionRecord of evolution.py; trigger_pattern and changes are both
\* built from ", ".join(patterns)
LedgerRecord(version, timestamp, patterns) ==
    [version |-> version, timestamp |-> timestamp,
     trigger_pattern |-> patterns, changes |-> patterns, success |-> TRUE]

\* mutant: the version is the length before the append
NewVersionFromZero(history) == Len(history)

\* new_version = len(self.evolution_history) + 1
NewVersion(history) == Len(history) + 1

\* json.dump(..., default=str): a datetime is written as its str(), every
\* other field as it is
JsonDefault(value) ==
    IF value.kind = "datetime" THEN [value EXCEPT !.kind = "str"] ELSE value

\* _save_history: the file is rewritten with vars(r) of every record
SaveHistory(history) ==
    [exists |-> TRUE,
     data |-> [i \in 1..Len(history) |->
                  [history[i] EXCEPT !.timestamp = JsonDefault(@)]]]

\* _load_history: EvolutionRecord(**r) of every object of the file, each
\* field as json.load returns it
LoadHistory(file) == IF file.exists THEN file.data ELSE << >>

ledgerRest ==
    << agents, config, state, metrics, tools, executions, execution_log,
       stubFails, batchVars, semValue, semWaiters, co, results, mainPc,
       running, current_task, task_result, task_error, regCall, orchCall,
       elapsed >>

InitLedger ==
    /\ agents = << >>
    /\ config = << >>
    /\ state = << >>
    /\ metrics = << >>
    /\ tools = << >>
    /\ executions = << >>
    /\ evolution_history = << >>
    /\ execution_log = << >>
    /\ stubFails = {}
    /\ task_status = << >>
    /\ max_concurrent = 0
    /\ agent_ids = << >>
    /\ semValue = 0
    /\ semWaiters = << >>
    /\ co = << >>
    /\ results = << >>
    /\ mainPc = "ledger"
    /\ running = 0
    /\ current_task = NoCurrentTask
    /\ task_result = << >>
    /\ task_error = << >>
    /\ regCall = NoCall
    /\ NoOtherCalls

Evolvers == 1..Len(evolution_history)

\* SelfEvolver(): the ledger is read from the file
NewEvolver ==
    /\ Len(evolution_history) < MaxEvolvers
    /\ evolution_history' =
          Append(evolution_history, LoadHistory(history_file))
    /\ evoCall' = [evoCall EXCEPT !.op = "init",
                                  !.evolver = Len(evolution_history) + 1,
                                  !.patterns = << >>,
                                  !.returned = TRUE,
                                  !.status = ""]
    /\ UNCHANGED << ledgerRest, history_file, system_prompt, logs, commits >>

\* the body of evolve after `if not patterns: return False`: the record is
\* appended, the file rewritten, the marker appended to the system prompt
Apply(e, patterns) ==
    LET version == NewVersion(evolution_history[e])
        history == Append(evolution_history[e],
                          LedgerRecord(version, Now, patterns))
    IN /\ evolution_history' = [evolution_history EXCEPT ![e] = history]
       /\ history_file' = SaveHistory(history)
       /\ system_prompt' = Append(system_prompt, version)

\* evolve(patterns)
Evolve(e, patterns) ==
    /\ e \in Evolvers
    /\ evoCall.n < MaxEvoCalls
    /\ IF patterns = << >>
       THEN UNCHANGED << evolution_history, history_file, system_prompt >>
       ELSE Apply(e, patterns)
    /\ evoCall' = [n |-> evoCall.n + 1, op |-> "evolve", evolver |-> e,
                   patterns |-> patterns, returned |-> patterns # << >>,
                   status |-> ""]
    /\ UNCHANGED << ledgerRest, logs, commits >>

NextLedger ==
    \/ NewEvolver
    \/ \E e \in 1..MaxEvolvers, patterns \in PatternChoices :
          Evolve(e, patterns)

SpecLedger == InitLedger /\ [][NextLedger]_vars

\* ---------------------------------------------------- run_nightly_mutation
\* The lines of the log files, as log_interaction writes them.  edit_details
\* is "text" or "null" (the default None); mentions are the failure patterns
\* whose keywords _find_patterns finds in user_input + " " + edit_details
\* of the line.  All lines are younger than a day.
AllPatterns ==
    << "code_generation_issues", "response_too_verbose", "factual_inaccuracy" >>

LogKinds ==
    << [user_action |-> "accept", edit_details |-> "null", mentions |-> {}],
       [user_action |-> "reject", edit_details |-> "text",
        mentions |-> {"factual_inaccuracy"}],
       [user_action |-> "reject", edit_details |-> "text", mentions |-> {}],
       [user_action |-> "reject", edit_details |-> "null", mentions |-> {}] >>

\* `< 0.15`, in percent
RejectionThresholdPercent == 15

\* [l for l in logs if l.get("user_action") == "reject"]
Rejects(lines) == SelectSeq(lines, LAMBDA l : l.user_action = "reject")

\* len(rejects) / len(logs) if logs else 0, compared with the threshold
BelowThreshold(lines) ==
    \/ lines = << >>
    \/ 100 * Len(Rejects(lines)) < RejectionThresholdPercent * Len(lines)

\* r.get("user_input", "") + " " + r.get("edit_details", ""): the key is
\* present with value None, so the default is not used and str + None
\* raises TypeError
FindPatternsRaises(rejects) ==
    \E i \in 1..Len(rejects) : rejects[i].edit_details = "null"

\* _find_patterns when it does not raise
FindPatterns(rejects) ==
    SelectSeq(AllPatterns,
              LAMBDA p : \E i \in 1..Len(rejects) : p \in rejects[i].mentions)

\* analyze_daily_logs on a window of lines: raised, or the summary dict
Summarize(lines) ==
    LET rejects == Rejects(lines)
    IN [raised |-> FindPatternsRaises(rejects),
        total_interactions |-> Len(lines),
        accepts |-> Len(SelectSeq(lines, LAMBDA l : l.user_action = "accept")),
        rejects |-> Len(rejects),
        rejection_rate |-> IF lines = << >>
                           THEN [num |-> 0, den |-> 1]
                           ELSE [num |-> Len(rejects), den |-> Len(lines)],
        common_patterns |-> IF FindPatternsRaises(rejects)
                            THEN << >> ELSE FindPatterns(rejects)]

\* log_interaction.  Input bound: the lines are written in the order of
\* LogKinds, the analysis does not depend on their order.
LogInteraction(k) ==
    /\ Evolvers # {}
    /\ Len(logs) < MaxLogs
    /\ \A i \in 1..Len(logs) : \E j \in 1..k : logs[i] = LogKinds[j]
    /\ logs' = Append(logs, LogKinds[k])
    /\ UNCHANGED << ledgerRest, evolution_history, history_file,
                    system_prompt, commits, evoCall >>

\* run_nightly_mutation; git_ok is whether subprocess.run can start git
RunNightlyMutation(e, git_ok) ==
    /\ e \in Evolvers
    /\ evoCall.n < MaxEvoCalls
    /\ LET rejects == Rejects(logs)
           patterns == FindPatterns(rejects)
           call == [n |-> evoCall.n + 1, op |-> "run_nightly_mutation",
                    evolver |-> e, patterns |-> << >>, returned |-> TRUE,
                    status |-> ""]
       IN IF FindPatternsRaises(rejects)
          THEN /\ evoCall' = [call EXCEPT !.returned = FALSE,
                                          !.status = "TypeError"]
               /\ UNCHANGED << evolution_history, history_file,
                               system_prompt, commits >>
          ELSE IF BelowThreshold(logs)
          THEN /\ evoCall' = [call EXCEPT !.status = "skipped"]
               /\ UNCHANGED << evolution_history, history_file,
                               system_prompt, commits >>
          ELSE /\ IF patterns # << >>
                  THEN Apply(e, patterns)
                  ELSE UNCHANGED << evolution_history, history_file,
                                    system_prompt >>
               /\ commits' = IF git_ok THEN commits + 1 ELSE commits
               /\ evoCall' = [call EXCEPT
                                 !.patterns = patterns,
                                 !.status = IF git_ok THEN "success"
                                                      ELSE "partial"]
    /\ UNCHANGED << ledgerRest, logs >>

NextNightly ==
    \/ NewEvolver
    \/ \E k \in DOMAIN LogKinds : LogInteraction(k)
    \/ \E e \in 1..MaxEvolvers, git_ok \in BOOLEAN :
          RunNightlyMutation(e, git_ok)

SpecNightly == InitLedger /\ [][NextNightly]_vars

\* ---------------------------------------------------------------- metrics
\* The batch of execute_parallel with measured times that differ from task
\* to task, on agents with memory (the task-completed memorize may raise,
\* which is the failed task of this world) and the shipped registry.

\* measured execution times in ms
LatencyChoices == {7, 8}

NextMetrics ==
    \/ \E ms \in MaxStepsChoices : CreateAgent(AgentConfig(FALSE, ms, TRUE))
    \/ \E n \in 1..MaxTasks, mc \in 1..MaxConc : StartParallel(n, mc)
    \/ \E i \in Tasks : AcquireFree(i)
    \/ \E i \in Tasks : AcquireBlocked(i)
    \/ \E i \in Tasks : AcquireResume(i)
    \/ \E i \in Tasks : EnterExecuteTask(i)
    \/ \E i \in Tasks : MemorizeStartedOk(i)
    \/ \E i \in Tasks : Think(i)
    \/ \E i \in Tasks : RecallReturns(i)
    \/ \E i \in Tasks : Plan(i)
    \/ \E i \in Tasks : ActBegin(i)
    \/ \E i \in Tasks : ActStep(i)
    \/ \E i \in Tasks : Reflect(i)
    \/ \E i \in Tasks : MemorizeCompletedOk(i)
    \/ \E i \in Tasks : MemorizeCompletedRaises(i)
    \/ \E i \in Tasks, t \in LatencyChoices : UpdateMetrics(i, t)
    \/ \E i \in Tasks : CheckEvolve(i)
    \/ \E i \in Tasks : Return(i)
    \/ GatherReturns

SpecMetrics == InitTimeout /\ [][NextMetrics]_vars

\* ---------------------------------------------------------------- HTTP API
\* src/ui/api/main.py: one global AgentOrchestrator and the task table
\* `tasks`, to which the execute and the broadcast handler add the Task they
\* build before they await the orchestrator; nothing is ever deleted from
\* the table.  The entry of an execute request is the task of its frame, the
\* entry of a broadcast request its request_task.

\* POST /api/agents/{agent_id}/execute: Task(...), tasks[task.id] = task,
\* then orchestrator.execute_task(agent_id, task)
ApiExecuteTask(agent_id) == BaseSubmit(agent_id)

\* POST /api/agents/broadcast: Task(...), tasks[task.id] = task, then
\* orchestrator.broadcast_task(task, agent_filter) up to its first next()
ApiBroadcastTask(filter) ==
    /\ running = 0
    /\ Len(co) < MaxRequests
    /\ task_status' = Append(task_status, IDLE)
    /\ task_result' = Append(task_result, FALSE)
    /\ task_error' = Append(task_error, FALSE)
    /\ co' = Append(co, [Frame(0) EXCEPT
                            !.pc = "next_agent",
                            !.caller = "broadcast_task",
                            !.filter = filter,
                            !.it_pos = 1,
                            !.it_len = Len(agents),
                            !.it_used = Len(agents),
                            !.seen_agents = {agents[k] : k \in 1..Len(agents)},
                            !.request_task = Len(task_status) + 1])
    /\ results' = Append(results, Pending)
    /\ running' = Len(co) + 1
    /\ UNCHANGED << baseRest, agents, config, state, execution_log,
                    current_task >>

\* the entry of the task table made by request r
StoredTask(r) ==
    IF co[r].caller = "broadcast_task" THEN co[r].request_task ELSE co[r].task

NextApi ==
    \/ \E name \in BroadcastNames, ms \in BaseMaxStepsChoices :
          BaseCreateAgent(BaseAgentConfig(name, ms))
    \/ \E a \in 1..MaxAgents : ApiExecuteTask(a)
    \/ \E f \in BroadcastFilters : ApiBroadcastTask(f)
    \/ \E r \in Tasks : BroadcastNext(r)
    \/ \E r \in Tasks : BaseExecuteTask(r)

SpecApi == InitBase /\ [][NextApi]_vars

\* ---------------------------------------------------------------- liveness
\* The batch of execute_parallel under the scheduling asyncio gives: the
\* event loop runs every coroutine that is ready, gather resumes once all of
\* them are done, and every call of the memory collaborator is assumed to
\* return or raise eventually.  Agents are created with memory, so every
\* await and the raise before the try block are on the path.

\* any step of the coroutine of task i, the answers of its collaborator
\* calls included
CoStep(i) ==
    /\ i \in Tasks
    /\ \/ AcquireFree(i)
       \/ AcquireBlocked(i)
       \/ AcquireResume(i)
       \/ EnterExecuteTask(i)
       \/ MemorizeStartedOk(i)
       \/ MemorizeStartedRaises(i)
       \/ Think(i)
       \/ RecallReturns(i)
       \/ Plan(i)
       \/ ActBegin(i)
       \/ ActStep(i)
       \/ Reflect(i)
       \/ MemorizeCompletedOk(i)
       \/ MemorizeCompletedRaises(i)
       \/ \E t \in Latencies : UpdateMetrics(i, t)
       \/ CheckEvolve(i)
       \/ Return(i)

NextLive ==
    \/ \E ms \in MaxStepsChoices : CreateAgent(AgentConfig(FALSE, ms, TRUE))
    \/ \E n \in 1..MaxTasks, mc \in 1..MaxConc : StartParallel(n, mc)
    \/ \E i \in 1..MaxTasks : CoStep(i)
    \/ GatherReturns

SpecLive ==
    /\ InitTimeout
    /\ [][NextLive]_vars
    /\ \A i \in 1..MaxTasks : WF_vars(CoStep(i))
    /\ WF_vars(GatherReturns)

\* ------------------------------------------------------- shipped registry
\* Every agent configuration, the registry as shipped: the body of
\* execute_tool builds its result dict and cannot raise.
SpecShipped == InitTimeout /\ [][Next]_vars

\* ---------------------------------------------------------------- isolation
\* Both orchestrators side by side: a run is either one of
\* MultiAgentOrchestrator (agents created, then execute_parallel) or one of
\* AgentOrchestrator behind the API (agents created, execute and broadcast
\* requests), so that every way into execute_task is on some path.
InitIsolation == Init \/ InitBase

\* Input bound on the API side: every agent is created with the default
\* max_steps, under either name.
NextIsolation ==
    \/ mainPc # "base" /\ Next
    \/ mainPc = "base" /\
          \/ \E name \in BroadcastNames :
                BaseCreateAgent(BaseAgentConfig(name, 100))
          \/ \E a \in 1..MaxAgents : ApiExecuteTask(a)
          \/ \E f \in BroadcastFilters : ApiBroadcastTask(f)
          \/ \E r \in Tasks : BroadcastNext(r)
          \/ \E r \in Tasks : BaseExecuteTask(r)

SpecIsolation == InitIsolation /\ [][NextIsolation]_vars

\* ================================================================ claims
AgentIds == 1..Len(agents)

\* positions of a coroutine inside EnhancedAgentZero.execute_task
ExecPcs ==
    { "await_memorize_started", "think", "await_recall", "plan", "act_begin",
      "act", "reflect", "await_memorize_completed", "update_metrics",
      "check_evolve" }

\* execute_task has returned its dict for task i
Returned(i) == co[i].pc \in {"return", "done"} /\ co[i].outcome.kind = "dict"

\* the calls of execute_task made on agent a
CallsOn(a) == {i \in Tasks : co[i].agent = a}

\* C1: when execute_task returns, the task's status is Completed or Error
\* (never Idle, Thinking or Executing).
C1_StatusTerminalOnReturn ==
    \A i \in Tasks : Returned(i) => task_status[i] \in {COMPLETED, ERROR}

\* C2: every execute_task call adds exactly 1 to tasks_completed +
\* tasks_failed, so once all calls of the batch have ended the sum of an
\* agent equals the number of calls made on it.
C2_EveryCallCounted ==
    mainPc = "returned" =>
        \A a \in AgentIds :
            metrics[a].tasks_completed + metrics[a].tasks_failed
                = Cardinality(CallsOn(a))

\* number of step results whose success flag is present and false
FlaggedFailures(details) ==
    Cardinality({k \in 1..Len(details) :
                    details[k].has_success /\ ~details[k].success})

Reflected(i) == co[i].pc \in {"await_memorize_completed", "update_metrics"}

\* C3: should_evolve is true exactly when 2*failed > total, success_rate is
\* 1 - failed/total (1 and no evolution for no steps), steps without a flag
\* count as successful, whatever the agent's state, log and metrics were.
C3_ReflectRule ==
    \A i \in Tasks :
        Reflected(i) =>
            LET r == co[i].reflection
                total == Len(co[i].details)
                failed == FlaggedFailures(co[i].details)
            IN /\ r.total_steps = total
               /\ r.failed_steps = failed
               /\ r.should_evolve = (2 * failed > total)
               /\ r.success_rate.den > 0
               /\ IF total > 0
                  THEN r.success_rate.num * total
                           = (total - failed) * r.success_rate.den
                  ELSE /\ r.success_rate.num = r.success_rate.den
                       /\ ~r.should_evolve

\* C3 witness: 3 steps with 2 failures gave should_evolve and rate 1/3; one
\* of the steps counted as successful carries no flag.
C3_Witness ==
    \E i \in Tasks :
        /\ Reflected(i)
        /\ Len(co[i].details) = 3
        /\ co[i].reflection.failed_steps = 2
        /\ co[i].reflection.should_evolve
        /\ 3 * co[i].reflection.success_rate.num = co[i].reflection.success_rate.den
        /\ \E k \in 1..3 : ~co[i].details[k].has_success

\* the scenario of C4: one task on one agent with max_steps = 3 whose
\* "execute" tool always fails while the other tools succeed
Scenario ==
    /\ stubFails = {"code_execute"}
    /\ Len(co) = 1
    /\ config[co[1].agent].max_steps = 3
    /\ Returned(1)
    /\ co[1].outcome.status = "success"

\* C4 as stated: the scenario ends with should_evolve, one new tool and
\* tools_created = 1.
C4_ScenarioEvolves ==
    Scenario =>
        /\ co[1].outcome.reflection.should_evolve
        /\ Len(tools[co[1].agent]) = Len(BuiltinNames) + 1
        /\ metrics[co[1].agent].tools_created = 1

\* C4 amended: the scenario ends with exactly one failed step, which is no
\* strict majority: should_evolve is false, no tool is registered, no
\* EvolutionRecord is appended and tools_created stays 0.
C4_ScenarioDoesNotEvolve ==
    Scenario =>
        /\ co[1].outcome.reflection.failed_steps = 1
        /\ ~co[1].outcome.reflection.should_evolve
        /\ Len(tools[co[1].agent]) = Len(BuiltinNames)
        /\ evolution_history[co[1].agent] = << >>
        /\ metrics[co[1].agent].tools_created = 0

C4_Witness == Scenario /\ co[1].pc = "done" /\ mainPc = "returned"

\* C5: an agent with auto_evolve = false never registers a tool, never
\* appends an EvolutionRecord and never changes tools_created.
C5_NoEvolutionWithoutAutoEvolve ==
    \A a \in AgentIds :
        ~config[a].auto_evolve =>
            /\ Len(tools[a]) = Len(BuiltinNames)
            /\ evolution_history[a] = << >>
            /\ metrics[a].tools_created = 0

\* tools of agent a's registry that a created
OwnTools(a) == {k \in 1..Len(tools[a]) : tools[a][k].created_by = a}

\* calls on a whose evolve step has run and fired
EvolvedCalls(a) ==
    {i \in CallsOn(a) :
        /\ co[i].outcome.status = "success"
        /\ co[i].outcome.reflection.should_evolve}

\* C6: each call in which evolution fires registers exactly one tool created
\* by this agent, appends one EvolutionRecord and adds 1 to tools_created, so
\* tools_created = len(evolution_history) = number of own tools = number of
\* calls that evolved; tool ids stay distinct.
C6_OneEvolutionPerCall ==
    \A a \in AgentIds :
        /\ metrics[a].tools_created = Len(evolution_history[a])
        /\ metrics[a].tools_created = Cardinality(OwnTools(a))
        /\ metrics[a].tools_created = Cardinality(EvolvedCalls(a))
        /\ Len(tools[a]) = Len(BuiltinNames) + Cardinality(OwnTools(a))
        /\ \A j, k \in 1..Len(tools[a]) :
              tools[a][j].id = tools[a][k].id => j = k

\* C6 witness: two calls on one agent both evolved.
C6_Witness ==
    \E a \in AgentIds :
        /\ metrics[a].tools_created = 2
        /\ Cardinality(EvolvedCalls(a)) = 2

\* calls on agent a between the start of execute_task and its return
InFlightOn(a) == {i \in CallsOn(a) : co[i].pc \in ExecPcs}

\* C7: every agent has at most one execute_task call in flight.
C7_SingleTaskInFlight ==
    \A a \in AgentIds : Cardinality(InFlightOn(a)) <= 1

\* executions admitted past the gate that have not returned
Admitted == {i \in Tasks : co[i].pc \in ({"admitted", "return"} \cup ExecPcs)}

\* C8: at most max_concurrent executions are past the gate and not returned.
C8_AdmissionBound ==
    mainPc = "gathering" => Cardinality(Admitted) <= max_concurrent

\* C8 witness: the gate is full with two executions and a third one waits.
C8_Witness ==
    /\ mainPc = "gathering"
    /\ max_concurrent = 2
    /\ Cardinality(Admitted) = 2
    /\ \E i \in Tasks : co[i].pc = "sem_wait"

\* C9: execute_parallel returns len(tasks) outcomes, and slot i holds the
\* outcome of task i run on the agent at position i mod n, in whatever order
\* the executions completed.
C9_OutcomeInPlace ==
    /\ \A i \in 1..Len(results) :
          results[i].kind # "pending" =>
              /\ co[i].pc = "done"
              /\ results[i] = co[i].outcome
              /\ co[i].agent = agent_ids[((i - 1) % Len(agent_ids)) + 1]
              /\ results[i].kind = "dict" =>
                    /\ results[i].task_id = i
                    /\ results[i].agent_id = agent_ids[((i - 1) % Len(agent_ids)) + 1]
    /\ mainPc = "returned" =>
          /\ Len(results) = Len(task_status)
          /\ \A i \in 1..Len(results) : results[i].kind # "pending"

\* C9 witness: a later task completed while an earlier one is still running.
C9_Witness ==
    \E i, j \in 1..Len(results) :
        /\ i < j
        /\ results[i].kind = "pending"
        /\ co[i].pc \in ExecPcs
        /\ results[j].kind = "dict"
        /\ results[j].task_id = j

\* C10: after the batch every slot, the failing tasks' slots included, holds
\* a structured outcome, never a raw exception.
C10_StructuredOutcomes ==
    mainPc = "returned" =>
        \A i \in 1..Len(results) : results[i].kind = "dict"


\* ------------------------------------------------------------------- C11
\* the step is a call of register_tool
RegisterStep == regCall'.n # regCall.n /\ regCall'.op = "register"

\* C11: every register_tool call returns an id no tool of the registry had,
\* leaves every existing entry as it was and appends exactly one
\* ToolDefinition with the given name and creator and usage_count 0; the ids
\* of the registry stay pairwise distinct, whichever agents register and in
\* whatever order.
C11_RegisterFresh ==
    [][RegisterStep =>
          /\ regCall'.returned \notin ToolIds(tools[1])
          /\ Len(tools'[1]) = Len(tools[1]) + 1
          /\ SubSeq(tools'[1], 1, Len(tools[1])) = tools[1]
          /\ tools'[1][Len(tools'[1])] =
                [id |-> regCall'.returned, name |-> regCall'.name,
                 created_by |-> regCall'.created_by, usage_count |-> 0]
          /\ Cardinality(ToolIds(tools'[1])) = Len(tools'[1])]_vars

\* two agents have each registered a tool in the same registry
C11_Witness ==
    /\ mainPc = "registry"
    /\ regCall.op = "register"
    /\ \E j, k \in 1..Len(tools[1]) :
          /\ tools[1][j].created_by = 1
          /\ tools[1][k].created_by = 2
          /\ tools[1][j].id # tools[1][k].id


\* ------------------------------------------------------------------- C12
\* the step is a call of execute_tool
ExecuteStep == regCall'.n # regCall.n /\ regCall'.op = "execute"

\* C12: execute_tool with an id that is not in the registry returns a
\* ToolExecution for that id with the error set and no result, and changes
\* neither any tool (so no usage_count) nor the execution history.
C12_UnknownIdRejected ==
    [][ExecuteStep /\ regCall'.tool_id \notin ToolIds(tools[1]) =>
          /\ regCall'.execution.tool_id = regCall'.tool_id
          /\ regCall'.execution.error
          /\ regCall'.execution.result = "None"
          /\ tools' = tools
          /\ executions' = executions]_vars

\* an unknown id was executed on a registry that had already run a tool
C12_Witness ==
    /\ regCall.op = "execute"
    /\ regCall.tool_id \notin ToolIds(tools[1])
    /\ regCall.execution.error
    /\ executions[1] # << >>


\* ------------------------------------------------------------------- C13
\* the sum of the usage_count of the first k tools of a registry
RECURSIVE SumUsage(_, _)
SumUsage(reg, k) ==
    IF k = 0 THEN 0 ELSE reg[k].usage_count + SumUsage(reg, k - 1)

\* the history records carrying a tool id
RecordsOf(execs, id) == {j \in 1..Len(execs) : execs[j].tool_id = id}

\* usage_count and the history agree, tool by tool and in total
UsageMatchesHistory(reg, execs) ==
    /\ \A k \in 1..Len(reg) :
          reg[k].usage_count = Cardinality(RecordsOf(execs, reg[k].id))
    /\ Len(execs) = SumUsage(reg, Len(reg))

\* C13: every execute_tool call on a registered id, whether its body runs or
\* raises, returns a ToolExecution (with the error set exactly when the body
\* raised), appends exactly that one record to the history and adds exactly 1
\* to the usage_count of that tool and of no other; and in every reachable
\* state each usage_count equals the number of history records of its tool
\* and the history length equals the sum of the usage_counts.
C13_OneRecordPerExecute ==
    /\ [](\A a \in DOMAIN tools : UsageMatchesHistory(tools[a], executions[a]))
    /\ [][ExecuteStep /\ regCall'.tool_id \in ToolIds(tools[1]) =>
             /\ executions'[1] = Append(executions[1], regCall'.execution)
             /\ regCall'.execution.tool_id = regCall'.tool_id
             /\ regCall'.execution.error
                   = (\E k \in 1..Len(tools[1]) :
                          /\ tools[1][k].id = regCall'.tool_id
                          /\ tools[1][k].name \in stubFails)
             /\ Len(tools'[1]) = Len(tools[1])
             /\ \A k \in 1..Len(tools[1]) :
                   tools'[1][k] =
                      IF tools[1][k].id = regCall'.tool_id
                      THEN [tools[1][k] EXCEPT !.usage_count = @ + 1]
                      ELSE tools[1][k]]_vars

\* the history holds a run whose body raised and a run whose body returned
C13_Witness ==
    /\ regCall.op = "execute"
    /\ regCall.tool_id \in ToolIds(tools[1])
    /\ \E i, j \in 1..Len(executions[1]) :
          executions[1][i].error /\ ~executions[1][j].error


\* ------------------------------------------------------------------- C14
\* positions of the tools of a registry whose creator is "system"
SystemTools(reg) == {k \in 1..Len(reg) : reg[k].created_by = SystemCreator}

C15_RegistryShared ==
    \A a \in AgentIds, b \in AgentIds :
        \A k \in 1..Len(tools[a]) :
            tools[a][k].created_by = a =>
                \E j \in 1..Len(tools[b]) :
                    /\ tools[b][j].created_by = a
                    /\ tools[b][j].name = tools[a][k].name


\* ------------------------------------------------------------------- C16
\* the smaller of two numbers
Min(x, y) == IF x <= y THEN x ELSE y

\* C16: while and after the act phase runs, the step results are one per
\* executed plan step, in plan order, each tool step flagged success = false
\* exactly when its tool execution carried an error; a failed step does not
\* end the loop (when the act phase is over, no fewer results than plan steps
\* within the step limit exist); and a call returns status "error" only on
\* an agent with a memory collaborator, never because of a tool error.
C16_ActRecordsEveryStep ==
    \A i \in Tasks :
        /\ co[i].pc \in {"act", "reflect"} =>
              /\ Len(co[i].details) = co[i].k - 1
              /\ Len(co[i].details) <= Len(PlanSteps)
              /\ \A j \in 1..Len(co[i].details) :
                    /\ co[i].details[j].step = j - 1
                    /\ co[i].details[j].action = PlanSteps[j]
                    /\ co[i].details[j].has_success =>
                          co[i].details[j].success
                             = (ActionToolMap(PlanSteps[j]) \notin stubFails)
        /\ co[i].pc = "reflect" =>
              Len(co[i].details)
                 >= Min(Len(PlanSteps), config[co[i].agent].max_steps)
        /\ Returned(i) /\ co[i].outcome.status = "error" =>
              config[co[i].agent].memory

\* a call whose act phase had a failing step before a passing one has
\* returned success
C16_Witness ==
    \E i \in Tasks :
        /\ Returned(i)
        /\ co[i].outcome.status = "success"
        /\ co[i].outcome.reflection.failed_steps = 1
        /\ co[i].outcome.reflection.total_steps = Len(PlanSteps)
        /\ stubFails = {"code_execute"}


\* ------------------------------------------------------------------- C17
\* C17: the act phase of a call never executes more plan steps than the
\* max_steps of the agent's config.
C17_StepsWithinMaxSteps ==
    \A i \in Tasks :
        Len(co[i].details) <= config[co[i].agent].max_steps


\* ------------------------------------------------------------------- C18
\* the calls on agent a that have returned a dict with the given status
ReturnedWith(a, status) ==
    {j \in CallsOn(a) : Returned(j) /\ co[j].outcome.status = status}

\* C18: when execute_task returns after an exception was caught, the agent's
\* state is ERROR, the task's status is ERROR, the task's error is set, and
\* the agent's tasks_failed counts exactly the calls that ended that way.
C18_FailureMarksAgentAndTask ==
    \A i \in Tasks :
        co[i].pc = "return" /\ co[i].outcome.status = "error" =>
            /\ state[co[i].agent] = ERROR
            /\ task_status[i] = ERROR
            /\ task_error[i]
            /\ metrics[co[i].agent].tasks_failed
                  = Cardinality(ReturnedWith(co[i].agent, "error"))

\* ------------------------------------------------------------------- C19
\* C19: when execute_task returns after Plan, Act and Reflect finished
\* without an exception, the agent's state is COMPLETED, the task's status is
\* COMPLETED, and the agent's tasks_completed counts exactly the calls that
\* ended that way.
C19_SuccessMarksAgentAndTask ==
    \A i \in Tasks :
        co[i].pc = "return" /\ co[i].outcome.status = "success" =>
            /\ state[co[i].agent] = COMPLETED
            /\ task_status[i] = COMPLETED
            /\ metrics[co[i].agent].tasks_completed
                  = Cardinality(ReturnedWith(co[i].agent, "success"))

\* ------------------------------------------------------------------- C20
\* the state changes the state machine allows
AllowedChange(s, t) ==
    \/ s = IDLE /\ t = THINKING
    \/ s = THINKING /\ t = EXECUTING
    \/ s = EXECUTING /\ t = COMPLETED
    \/ s = EXECUTING /\ t = ERROR
    \/ t = IDLE
    \/ t = ERROR

\* C20: every change of an agent's state is one of Idle->Thinking,
\* Thinking->Executing, Executing->Completed, Executing->Error, any->Idle,
\* any->Error; and execute_task takes a task only on an agent that is Idle.
C20_StateMachine ==
    [][/\ \A a \in DOMAIN state :
             state'[a] # state[a] => AllowedChange(state[a], state'[a])
       /\ \A r \in DOMAIN co :
             co[r].pc = "enter" /\ co'[r].pc = "plan" =>
                 state[co[r].agent] = IDLE]_vars


\* ------------------------------------------------------------------- C21
\* the step is a call of AgentOrchestrator.execute_task
SubmitStep == Len(co') = Len(co) + 1 /\ co'[Len(co')].caller = "execute_task"

\* C21: a call of AgentOrchestrator.execute_task with an id that is not a key
\* of the agent dict returns the error dict at once, runs no phase and
\* changes no agent; a call with a known id enters that agent's execute_task,
\* and what the orchestrator returns is the dict that agent produced for that
\* task.
C21_ExecuteTaskDelegates ==
    /\ [][SubmitStep =>
             LET r == Len(co')
             IN IF KnownAgent(agents, co'[r].agent)
                THEN co'[r].pc = "enter" /\ running' = r
                ELSE /\ co'[r].pc = "done"
                     /\ co'[r].outcome.status = "error"
                     /\ results'[r] = co'[r].outcome
                     /\ UNCHANGED << agents, config, state, execution_log,
                                     current_task, running >>]_vars
    /\ [](\A r \in Tasks :
             co[r].caller = "execute_task" /\ co[r].pc = "done" =>
                 /\ results[r] = co[r].outcome
                 /\ co[r].outcome.status = "success" =>
                       /\ co[r].outcome.agent_id = co[r].agent
                       /\ co[r].outcome.task_id = co[r].task
                       /\ task_status[co[r].task] = COMPLETED
                 /\ co[r].outcome.status = "error" =>
                       /\ co[r].details = << >>
                       /\ task_status[co[r].task] = IDLE)

\* one call was answered "not found", another returned its agent's outcome
C21_Witness ==
    \E r, q \in Tasks :
        /\ co[r].pc = "done" /\ co[r].outcome.status = "error"
        /\ co[q].pc = "done" /\ co[q].outcome.status = "success"
        /\ results[q].agent_id = co[q].agent


\* ------------------------------------------------------------------- C23
\* the step is a call of remove_agent
RemoveStep == orchCall'.op = "remove_agent" /\ orchCall' # orchCall

\* the ids that are keys of the agent dict
Registered(ags) == {ags[k] : k \in 1..Len(ags)}

\* C23: remove_agent with an id that is not registered returns False and
\* changes nothing; with a registered id it returns True and deletes exactly
\* that key, the other agents staying registered, in the same order and
\* untouched; an id once removed stays unknown: get_agent_status answers the
\* empty list for it, lists the registered agents only, and a later
\* execute_task on it is answered "not found".
C23_RemoveAgent ==
    /\ [][RemoveStep =>
             LET id == orchCall'.agent_id
             IN /\ orchCall'.returned = KnownAgent(agents, id)
                /\ Registered(agents') = Registered(agents) \ {id}
                /\ Len(agents') = Cardinality(Registered(agents'))
                /\ \A j, k \in 1..Len(agents') :
                      j < k => agents'[j] < agents'[k]
                /\ UNCHANGED << config, state, execution_log, current_task,
                                co, task_status, results >>]_vars
    /\ [][/\ \A id \in DOMAIN config :
                ~KnownAgent(agents, id) => ~KnownAgent(agents', id)
          /\ SubmitStep /\ ~KnownAgent(agents, co'[Len(co')].agent) =>
                co'[Len(co')].outcome = NotFoundOutcome]_vars
    /\ [](/\ \A id \in 1..MaxAgents :
                ~KnownAgent(agents, id) => GetAgentStatus(id) = << >>
          /\ \A id \in Registered(agents) :
                /\ Len(GetAgentStatus(id)) = 1
                /\ GetAgentStatus(id)[1].id = id
          /\ {GetAgentStatus(0)[k].id : k \in 1..Len(GetAgentStatus(0))}
                = Registered(agents))

\* an agent was removed while another stays registered, and a task sent to
\* the removed id was answered "not found"
C23_Witness ==
    /\ orchCall.op = "remove_agent"
    /\ orchCall.returned
    /\ agents # << >>
    /\ \E r \in Tasks :
          /\ co[r].agent = orchCall.agent_id
          /\ co[r].pc = "done"
          /\ co[r].outcome = NotFoundOutcome


\* ------------------------------------------------------------------- C24
\* C24: every task whose status is THINKING or EXECUTING is being executed by
\* an agent that is registered in the orchestrator.
C24_NoOrphanedTask ==
    \A r \in Tasks :
        co[r].task \in DOMAIN task_status
        /\ task_status[co[r].task] \in {THINKING, EXECUTING}
            => KnownAgent(agents, co[r].agent)


\* ------------------------------------------------------------------- C22
\* the agents a broadcast has collected an outcome from
Addressed(r) == {co[r].outcomes[k].agent_id : k \in 1..Len(co[r].outcomes)}

\* C22: a broadcast_task call that has ended returned its dict, with exactly
\* one outcome for each agent that was registered when the call began and is
\* not excluded by the filter, and with no outcome for any other agent.
C22_BroadcastReachesEveryAgent ==
    \A r \in Tasks :
        co[r].caller = "broadcast_task" /\ co[r].pc = "done" =>
            /\ co[r].outcome.kind = "dict"
            /\ Addressed(r)
                  = {a \in co[r].seen_agents :
                        ~FilteredOut(config[a], co[r].filter)}
            /\ Len(co[r].outcomes) = Cardinality(Addressed(r))


\* ------------------------------------------------------------------- C25
\* C25: no execute_task call is still suspended in a collaborator call once
\* more than config.timeout_seconds have passed since it began: at expiry
\* the step is abandoned and the call ends.
C25_TimeoutEndsTask ==
    \A i \in Tasks :
        co[i].pc \in AwaitPcs =>
            elapsed[i] <= config[co[i].agent].timeout_seconds


\* ------------------------------------------------------------------- C26
\* the record at every position carries that position as its version
VersionsArePositions(history) ==
    \A i \in 1..Len(history) : history[i].version = i

\* a call of evolve has been made in this step
EvolveStep == evoCall'.op = "evolve" /\ evoCall'.n = evoCall.n + 1

\* evolve has applied an evolution on evolver e in this step
Applied(e) == EvolveStep /\ evoCall'.returned /\ evoCall'.evolver = e

\* C26: in every ledger, in memory or in the file, the record at position i
\* (1-based) has version i; a new SelfEvolver starts with as many records
\* as the file holds (none without a file); every applied evolution makes
\* its ledger one longer, the new record's version being the new length,
\* and writes that ledger to the file; nothing else changes the length of a
\* ledger.  So a ledger that started empty has length K after K
\* applications, and one that was loaded continues at the loaded count + 1.
C26_LedgerVersions ==
    /\ [](/\ \A e \in Evolvers : VersionsArePositions(evolution_history[e])
          /\ VersionsArePositions(history_file.data))
    /\ [][Len(evolution_history') = Len(evolution_history) + 1 =>
             Len(evolution_history'[Len(evolution_history')])
                = Len(history_file.data)]_vars
    /\ [][\A e \in Evolvers :
             IF Applied(e)
             THEN /\ Len(evolution_history'[e]) = Len(evolution_history[e]) + 1
                  /\ evolution_history'[e][Len(evolution_history'[e])].version
                        = Len(evolution_history[e]) + 1
                  /\ Len(history_file'.data) = Len(evolution_history'[e])
             ELSE Len(evolution_history'[e]) = Len(evolution_history[e])]_vars

\* a SelfEvolver constructed from a saved ledger has extended it: its first
\* record came from the file, its last one from its own evolve
C26_Witness ==
    \E e \in Evolvers :
        /\ Len(evolution_history[e]) >= 2
        /\ evolution_history[e][1].timestamp.kind = "str"
        /\ evolution_history[e][Len(evolution_history[e])].timestamp.kind
              = "datetime"
        /\ evoCall.op = "evolve" /\ evoCall.evolver = e /\ evoCall.returned

\* ------------------------------------------------------------------- C27
\* C27: every call of evolve, whatever its list of patterns, leaves the
\* ledger one record longer, the records that were there before being the
\* same records at the same positions.
C27_EveryCallAppends ==
    [][EvolveStep =>
          LET e == evoCall'.evolver
          IN /\ Len(evolution_history'[e]) = Len(evolution_history[e]) + 1
             /\ SubSeq(evolution_history'[e], 1, Len(evolution_history[e]))
                   = evolution_history[e]]_vars

\* ------------------------------------------------------------------- C28
\* C28: every ledger is read back from the file it was saved to as the same
\* sequence of records, equal field by field.
C28_SaveLoadRoundTrip ==
    \A e \in Evolvers :
        LoadHistory(SaveHistory(evolution_history[e])) = evolution_history[e]


\* ------------------------------------------------------------------- C29
\* a call of run_nightly_mutation has been made in this step
NightlyStep ==
    evoCall'.op = "run_nightly_mutation" /\ evoCall'.n = evoCall.n + 1

\* C29: a call of run_nightly_mutation on logs with a rejection rate below
\* the threshold (no logs included) returns status skipped and leaves the
\* ledger, the system prompt and the commits as they were; on any other
\* logs it does not skip and its ledger grows by exactly one record.
C29_SkipOrEvolve ==
    [][NightlyStep =>
          LET e == evoCall'.evolver
          IN IF BelowThreshold(logs)
             THEN /\ evoCall'.returned /\ evoCall'.status = "skipped"
                  /\ evolution_history' = evolution_history
                  /\ history_file' = history_file
                  /\ system_prompt' = system_prompt
                  /\ commits' = commits
             ELSE /\ evoCall'.returned /\ evoCall'.status # "skipped"
                  /\ Len(evolution_history'[e])
                        = Len(evolution_history[e]) + 1]_vars


\* ------------------------------------------------------------------- C30
\* C30: every execute_task call that has ended, whichever of its memory
\* calls raised, ended by returning a dict with status success or error to
\* its caller, never by raising.
C30_NoExceptionEscapes ==
    \A i \in Tasks :
        co[i].pc = "done" =>
            /\ co[i].outcome.kind = "dict"
            /\ co[i].outcome.status \in {"success", "error"}


\* ------------------------------------------------------------------- C31
\* position of a frame among the phases of execute_task: 0 before the try
\* block, 1 in _think, 2 in _act, 3 in _reflect, 4 between _reflect and the
\* evolution check, 5 at the evolution check, 6 once the call has ended
PhaseRank(pc) ==
    CASE pc \in {"think", "await_recall", "plan"} -> 1
      [] pc \in {"act_begin", "act"} -> 2
      [] pc = "reflect" -> 3
      [] pc \in {"await_memorize_completed", "update_metrics"} -> 4
      [] pc = "check_evolve" -> 5
      [] pc \in {"return", "done"} -> 6
      [] OTHER -> 0

\* C31: within one execute_task call a step stays in its phase, moves to the
\* next one or ends the call, so that Plan, Act, Reflect and the evolution
\* check run in this order and each at most once; _evolve acts only in the
\* step of a call that is past Reflect and whose reflection asks for it; and
\* a call in which an exception was caught (the failure is counted) goes
\* straight to its return, no later phase running.
C31_PhaseOrder ==
    /\ [][\A i \in Tasks :
             \/ PhaseRank(co'[i].pc) = PhaseRank(co[i].pc)
             \/ PhaseRank(co'[i].pc) = PhaseRank(co[i].pc) + 1
             \/ PhaseRank(co'[i].pc) = 6]_vars
    /\ [][\A a \in DOMAIN evolution_history :
             evolution_history'[a] # evolution_history[a] =>
                \E i \in Tasks :
                    /\ co[i].agent = a /\ co[i].pc = "check_evolve"
                    /\ co[i].reflection = Reflection(co[i].details)
                    /\ co[i].reflection.should_evolve
                    /\ co'[i].pc = "return"]_vars
    /\ [][\A i \in Tasks :
             /\ co'[i] # co[i]
             /\ co[i].agent \in DOMAIN metrics
             /\ metrics'[co[i].agent].tasks_failed
                   > metrics[co[i].agent].tasks_failed
             => co'[i].pc = "return"]_vars

\* a call whose reflection asked for evolution ended with the error dict
\* after its task-completed memorize raised, and the agent did not evolve
C31_Witness ==
    \E i \in Tasks :
        /\ co[i].pc = "return" /\ co[i].outcome.status = "error"
        /\ co[i].reflection.should_evolve
        /\ co[i].agent \in DOMAIN evolution_history
        /\ evolution_history[co[i].agent] = << >>
        /\ Len(execution_log[co[i].agent]) >= 2


\* ------------------------------------------------------------------- C32
\* execute_task of call i has counted its task as completed and updated the
\* metrics in this step
MetricsStep(i) == co[i].pc = "update_metrics" /\ co'[i].pc = "check_evolve"

\* call i has counted its task as failed in this step
FailureStep(i) ==
    /\ co'[i] # co[i]
    /\ co[i].agent \in DOMAIN metrics
    /\ metrics'[co[i].agent].tasks_failed > metrics[co[i].agent].tasks_failed

\* a failed task leaves the average and the count of completed tasks alone
FailureKeepsAverage ==
    \A i \in Tasks :
        FailureStep(i) =>
            /\ metrics'[co[i].agent].avg_execution_time_ms
                  = metrics[co[i].agent].avg_execution_time_ms
            /\ metrics'[co[i].agent].tasks_completed
                  = metrics[co[i].agent].tasks_completed

\* C32 as stated: after the n-th successful task with measured time L the
\* average is exactly (old_avg*(n-1) + L)/n, and a failed task leaves it
\* unchanged.
C32_ExactMean ==
    [][/\ \A i \in Tasks :
             MetricsStep(i) =>
                LET a == co[i].agent
                    n == metrics'[a].tasks_completed
                IN /\ n = metrics[a].tasks_completed + 1
                   /\ metrics'[a].avg_execution_time_ms * n
                         = metrics[a].avg_execution_time_ms * (n - 1)
                           + co'[i].execution_time
       /\ FailureKeepsAverage]_vars

\* C32 amended: after the n-th successful task with measured time L the
\* average is (old_avg*(n-1) + L)/n truncated to an integer, which is L when
\* n = 1, and a failed task leaves it unchanged.
C32_TruncatedMean ==
    [][/\ \A i \in Tasks :
             MetricsStep(i) =>
                LET a == co[i].agent
                    n == metrics'[a].tasks_completed
                IN /\ n = metrics[a].tasks_completed + 1
                   /\ metrics'[a].avg_execution_time_ms
                         = (metrics[a].avg_execution_time_ms * (n - 1)
                            + co'[i].execution_time) \div n
                   /\ n = 1 => metrics'[a].avg_execution_time_ms
                                  = co'[i].execution_time
       /\ FailureKeepsAverage]_vars

\* the second successful task of an agent took 8 ms after a first one of
\* 7 ms, and one task of that agent has failed
C32_Witness ==
    \E i \in Tasks :
        /\ co[i].pc = "check_evolve" /\ co[i].execution_time = 8
        /\ metrics[co[i].agent].tasks_completed = 2
        /\ metrics[co[i].agent].avg_execution_time_ms = 7
        /\ metrics[co[i].agent].tasks_failed >= 1


\* ------------------------------------------------------------------- C33
\* C33: for every window of lines written by log_interaction,
\* analyze_daily_logs returns its summary without raising (so no
\* run_nightly_mutation call ends in its TypeError), with the total, the
\* accepts and the rejects counted and the rate rejects/total.
C33_SummarizeEveryWindow ==
    LET s == Summarize(logs)
    IN /\ ~s.raised
       /\ evoCall.status # "TypeError"
       /\ s.total_interactions = Len(logs)
       /\ s.accepts + s.rejects = s.total_interactions
       /\ s.rejection_rate.num * s.total_interactions
             = s.rejects * s.rejection_rate.den


\* ------------------------------------------------------------------- C34
\* C34: once an execute or a broadcast request has returned, the task it
\* put into the task table has status Completed or Error.
C34_StoredTaskSettled ==
    \A r \in Tasks :
        co[r].pc = "done" =>
            task_status[StoredTask(r)] \in {COMPLETED, ERROR}


\* ------------------------------------------------------------------- C35
\* C35: an execute_parallel call made while the orchestrator has no agent
\* does not raise: it builds one slot per task and returns them, each
\* holding an error dict.
C35_NoAgentsGivesErrors ==
    mainPc # "idle" /\ agent_ids = << >> =>
        /\ mainPc \in {"gathering", "returned"}
        /\ Len(results) = Len(task_status)
        /\ mainPc = "returned" =>
              \A i \in 1..Len(results) :
                  results[i].kind = "dict" /\ results[i].status = "error"


\* ------------------------------------------------------------------- C36
\* C36: once execute_parallel has built its coroutines (at least one agent,
\* max_concurrent >= 1) it eventually returns, and it returns only when the
\* coroutine of every task has passed the admission gate and finished; when
\* it has returned, every permit taken was given back, on the success and
\* on the failure path alike: all max_concurrent permits are free and
\* nobody waits at the gate.
C36_BatchTerminates ==
    /\ (mainPc = "gathering") ~> (mainPc = "returned")
    /\ [](mainPc = "returned" =>
             /\ \A i \in Tasks : co[i].pc = "done"
             /\ \A i \in Tasks : results[i].kind # "pending"
             /\ semValue = max_concurrent
             /\ semWaiters = << >>)

\* a batch has returned in which a task had to wait at the gate and a task
\* left execute_task through the exception of its first memory call
C36_Witness ==
    /\ mainPc = "returned"
    /\ Len(results) > max_concurrent
    /\ \E i \in 1..Len(results) : results[i].kind = "exception"
    /\ \E i \in 1..Len(results) : results[i].kind = "dict"


\* ------------------------------------------------------------------- C37
\* C37: with the shipped registry every step of every plan was run on a
\* registered built-in tool and carries success, no ToolExecution holds an
\* error, every reflection made counts no failed step and does not ask for
\* evolution, and every agent has an empty evolution history, tools_created
\* 0 and a registry of exactly the built-in tools.
C37_ShippedNeverEvolves ==
    /\ \A a \in DOMAIN tools :
          /\ evolution_history[a] = << >>
          /\ metrics[a].tools_created = 0
          /\ Len(tools[a]) = Len(BuiltinNames)
          /\ \A k \in 1..Len(tools[a]) :
                /\ tools[a][k].name = BuiltinNames[k]
                /\ tools[a][k].created_by = SystemCreator
          /\ \A k \in 1..Len(executions[a]) : ~executions[a][k].error
    /\ \A i \in Tasks :
          /\ \A k \in 1..Len(co[i].details) :
                /\ co[i].details[k].tool \in 1..Len(BuiltinNames)
                /\ co[i].details[k].has_success
                /\ co[i].details[k].success
          /\ PhaseRank(co[i].pc) \in {4, 5} =>
                /\ co[i].reflection.total_steps = Len(PlanSteps)
                /\ co[i].reflection.failed_steps = 0
                /\ ~co[i].reflection.should_evolve

\* a call has run its four steps and passed the evolution check of an agent
\* that completed another task before
C37_Witness ==
    \E i \in Tasks :
        /\ co[i].pc = "return" /\ co[i].outcome.status = "success"
        /\ co[i].outcome.reflection.total_steps = Len(PlanSteps)
        /\ metrics[co[i].agent].tasks_completed >= 2
        /\ Len(executions[co[i].agent]) >= 2 * Len(PlanSteps)


\* ------------------------------------------------------------------- C38
\* C38: when execute_task returns its dict, on the success and on the error
\* path, the agent's success_rate is tasks_completed divided by
\* tasks_completed + tasks_failed.
C38_SuccessRateCurrent ==
    \A i \in Tasks :
        co[i].pc = "return" /\ co[i].agent \in DOMAIN metrics =>
            LET m == metrics[co[i].agent]
            IN m.success_rate.num * (m.tasks_completed + m.tasks_failed)
                  = m.tasks_completed * m.success_rate.den


\* what C39 names of one agent: its state, its current task, its execution
\* log, its metrics and its evolution history
AgentView(a) ==
    [state |-> state[a],
     current_task |-> current_task[a],
     execution_log |-> execution_log[a],
     metrics |-> IF a \in DOMAIN metrics THEN metrics[a] ELSE << >>,
     evolution_history |->
        IF a \in DOMAIN evolution_history THEN evolution_history[a]
        ELSE << >>]

\* the step is one of exactly one execute_task call, and that call is on a
CallOn(a) ==
    \E i \in DOMAIN co :
        /\ co[i].agent = a
        /\ co'[i] # co[i]
        /\ \A j \in DOMAIN co \ {i} : co'[j] = co[j]

\* C39: whichever way execute_task was entered (execute_task, broadcast_task
\* or execute_parallel) and however the calls interleave, a step changes the
\* state, current task, execution log, metrics or evolution history of an
\* agent only if it is a step of one execute_task call on that very agent;
\* so a call on one agent leaves those of every other agent unchanged.
C39_AgentIsolation ==
    [][\A a \in DOMAIN state \cap DOMAIN state' :
          AgentView(a)' # AgentView(a) => CallOn(a)]_vars

\* C39 witness: two agents, a call on each in flight; the first agent has
\* been moved by its call while the second is still as it was created.
C39_Witness ==
    /\ Len(agents) >= 2
    /\ \E i, j \in DOMAIN co :
          /\ co[i].agent = 1 /\ co[j].agent = 2
          /\ co[i].pc \notin {"created", "done"}
          /\ co[j].pc \notin {"created", "done"}
    /\ state[1] # IDLE /\ execution_log[1] # << >>
    /\ state[2] = IDLE /\ execution_log[2] = << >>



\* ------------------------------------------------------------------- C40
\* the keys of the agent dict
AgentKeys == {agents[k] : k \in 1..Len(agents)}

\* C40: a broadcast_task call during which create_agent or remove_agent ran
\* (the agent dict is not the one it began with) still ends by returning its
\* dict, with one outcome for each agent that was registered when it began
\* and is not excluded by the filter.
C40_BroadcastToleratesChurn ==
    [][\A r \in DOMAIN co :
          /\ co[r].caller = "broadcast_task"
          /\ co[r].pc # "done" /\ co'[r].pc = "done"
          /\ AgentKeys # co[r].seen_agents
          => /\ co'[r].outcome.kind = "dict"
             /\ Addressed(r)'
                   = {a \in co[r].seen_agents :
                         ~FilteredOut(config[a], co[r].filter)}]_vars

=============================================================================
